---- MODULE Spec2Model ----
(***************************************************************************)
(* Model of the AST optimizer (src/src/optimize.rs) and of the AST         *)
(* predicates it relies on (src/src/parser.rs).                            *)
(*                                                                         *)
(* AST nodes are records tagged by the field k.  Source positions are not  *)
(* represented: no guard of the optimizer reads a position, so every       *)
(* rewrite commutes with erasing them.  Strings that the optimizer looks   *)
(* into (string literals, map keys, property names) are sequences of       *)
(* one-character strings; names of variables and functions are strings.    *)
(***************************************************************************)
EXTENDS Integers, Sequences, FiniteSets, TLC

VARIABLES
    statements,   \* optimize_into_ast: the statements argument
    functions,    \* optimize_into_ast: the _functions argument
    scope,        \* the Scope argument: sequence of scope entries
    engine,       \* the Engine consulted for overrides and native calls
    level,        \* the OptimizationLevel argument
    module,       \* optimize_into_ast: the function library being built
    result,       \* optimize(): the local `result`
    state,        \* optimize(): the local `state`
    passes,       \* completed iterations of the optimization loop
    pc,           \* position inside optimize_into_ast / optimize
    round,        \* 1: first optimization, 2: optimization of its output
    first,        \* the AST returned by the first optimization
    compile,      \* Engine::parse: the script, the engine's limits and level
    parsed,       \* what parse_global_level / parse_global_expr returned
    ast,          \* the AST that Engine::parse returned
    other,        \* the AST given to merge_filtered / combine_filtered
    merged,       \* the AST that merge_filtered returned
    ppc           \* position of the caller of the parser

ovars == <<statements, functions, scope, engine, level, module, result, state,
           passes, pc, round, first>>

pvars == <<compile, parsed, ast, other, merged, ppc>>

vars == <<ovars, pvars>>

----------------------------------------------------------------------------
(* Option::None *)
NoneV == [k |-> "None"]

(* Expr *)
IntegerConstant(n) == [k |-> "Int", ival |-> n]
CharConstant(c) == [k |-> "Char", ch |-> c]
StringConstant(s) == [k |-> "Str", str |-> s]
FnPointer(n) == [k |-> "FnPtr", name |-> n]
Variable(n) == [k |-> "Var", name |-> n, q |-> FALSE]
QVariable(n) == [k |-> "Var", name |-> n, q |-> TRUE]
Property(p) == [k |-> "Prop", str |-> p]
ExprStmt(s) == [k |-> "Stmt", s |-> s]
ExprExpr(e) == [k |-> "Expr", e |-> e]
FnCall(n, q, args, def) == [k |-> "FnCall", name |-> n, q |-> q, args |-> args, def |-> def]
Dot(l, r) == [k |-> "Dot", lhs |-> l, rhs |-> r]
Index(l, r) == [k |-> "Index", lhs |-> l, rhs |-> r]
In(l, r) == [k |-> "In", lhs |-> l, rhs |-> r]
And(l, r) == [k |-> "And", lhs |-> l, rhs |-> r]
Or(l, r) == [k |-> "Or", lhs |-> l, rhs |-> r]
Array(items) == [k |-> "Array", items |-> items]
Map(pairs) == [k |-> "Map", pairs |-> pairs]
True == [k |-> "True"]
False == [k |-> "False"]
Unit == [k |-> "Unit"]
Custom(items) == [k |-> "Custom", items |-> items]

(* Stmt *)
Noop == [k |-> "Noop"]
IfThenElse(c, t, e) == [k |-> "If", cond |-> c, then |-> t, else |-> e]
While(c, b) == [k |-> "While", cond |-> c, body |-> b]
Loop(b) == [k |-> "Loop", body |-> b]
For(it, n, b) == [k |-> "For", iter |-> it, name |-> n, body |-> b]
Let(n, e) == [k |-> "Let", name |-> n, init |-> e]
Const(n, e) == [k |-> "Const", name |-> n, init |-> e]
Assignment(l, op, r) == [k |-> "Assign", lhs |-> l, op |-> op, rhs |-> r]
Block(ss) == [k |-> "Block", stmts |-> ss]
TryCatch(t, v, c) == [k |-> "TryCatch", try |-> t, var |-> v, catch |-> c]
StmtExpr(e) == [k |-> "SExpr", e |-> e]
Continue == [k |-> "Continue"]
Break == [k |-> "Break"]
ReturnWithVal(rt, e) == [k |-> "Return", ret |-> rt, init |-> e]
Import(e, a) == [k |-> "Import", e |-> e, alias |-> a]
Export(ns) == [k |-> "Export", names |-> ns]
Share(n) == [k |-> "Share", name |-> n]

(* Dynamic *)
DInt(n) == [t |-> "Int", ival |-> n]
DChar(c) == [t |-> "Char", ch |-> c]
DStr(s) == [t |-> "Str", str |-> s]
DBool(b) == [t |-> "Bool", b |-> b]
DUnit == [t |-> "Unit"]
DFnPtr(n) == [t |-> "FnPtr", name |-> n]
DArray(items) == [t |-> "Array", items |-> items]
DMap(pairs) == [t |-> "Map", pairs |-> pairs]

----------------------------------------------------------------------------
RECURSIVE is_constant(_)
is_constant(e) ==
    CASE e.k = "Expr" -> is_constant(e.e)
      [] e.k \in {"Int", "Char", "Str", "FnPtr", "True", "False", "Unit"} -> TRUE
      [] e.k = "Array" -> \A i \in 1..Len(e.items) : is_constant(e.items[i])
      [] e.k = "Map" -> \A i \in 1..Len(e.pairs) : is_constant(e.pairs[i].val)
      [] e.k = "In" -> /\ e.rhs.k = "Str"
                       /\ e.lhs.k \in {"Str", "Char"}
      [] OTHER -> FALSE

RECURSIVE is_literal(_)
is_literal(e) ==
    CASE e.k = "Expr" -> is_literal(e.e)
      [] e.k \in {"Int", "Char", "Str", "FnPtr", "True", "False", "Unit"} -> TRUE
      [] e.k = "Array" -> \A i \in 1..Len(e.items) : is_literal(e.items[i])
      [] e.k = "Map" -> \A i \in 1..Len(e.pairs) : is_literal(e.pairs[i].val)
      [] e.k = "In" -> /\ e.rhs.k = "Str"
                       /\ e.lhs.k \in {"Str", "Char"}
      [] OTHER -> FALSE

is_unit(e) == e.k = "Unit"

is_noop(s) == s.k = "Noop"

RECURSIVE expr_is_pure(_), stmt_is_pure(_)
expr_is_pure(e) ==
    CASE e.k = "Expr" -> expr_is_pure(e.e)
      [] e.k = "Array" -> \A i \in 1..Len(e.items) : expr_is_pure(e.items[i])
      [] e.k \in {"Index", "And", "Or", "In"} ->
            expr_is_pure(e.lhs) /\ expr_is_pure(e.rhs)
      [] e.k = "Stmt" -> stmt_is_pure(e.s)
      [] e.k = "Var" -> TRUE
      [] OTHER -> is_constant(e)

stmt_is_pure(s) ==
    CASE s.k = "Noop" -> TRUE
      [] s.k = "SExpr" -> expr_is_pure(s.e)
      [] s.k = "If" /\ s.else # NoneV ->
            expr_is_pure(s.cond) /\ stmt_is_pure(s.then) /\ stmt_is_pure(s.else)
      [] s.k = "If" /\ s.else = NoneV ->
            expr_is_pure(s.cond) /\ stmt_is_pure(s.then)
      [] s.k = "While" -> expr_is_pure(s.cond) /\ stmt_is_pure(s.body)
      [] s.k = "Loop" -> stmt_is_pure(s.body)
      [] s.k = "For" -> expr_is_pure(s.iter) /\ stmt_is_pure(s.body)
      [] s.k = "Block" -> \A i \in 1..Len(s.stmts) : stmt_is_pure(s.stmts[i])
      [] s.k = "TryCatch" -> stmt_is_pure(s.try) /\ stmt_is_pure(s.catch)
      [] OTHER -> FALSE

(* Expr::get_constant_value, for an expression with is_constant *)
RECURSIVE get_constant_value(_)
get_constant_value(e) ==
    CASE e.k = "Expr" -> get_constant_value(e.e)
      [] e.k = "Int" -> DInt(e.ival)
      [] e.k = "Char" -> DChar(e.ch)
      [] e.k = "Str" -> DStr(e.str)
      [] e.k = "FnPtr" -> DFnPtr(e.name)
      [] e.k = "True" -> DBool(TRUE)
      [] e.k = "False" -> DBool(FALSE)
      [] e.k = "Unit" -> DUnit
      [] e.k = "Array" /\ is_constant(e) ->
            DArray([i \in 1..Len(e.items) |-> get_constant_value(e.items[i])])
      [] e.k = "Map" /\ is_constant(e) ->
            DMap([i \in 1..Len(e.pairs) |->
                    [key |-> e.pairs[i].key, val |-> get_constant_value(e.pairs[i].val)]])
      [] OTHER -> NoneV

(* map_dynamic_to_expr: NoneV when the value has no literal form *)
RECURSIVE map_dynamic_to_expr(_)
map_dynamic_to_expr(v) ==
    CASE v.t = "Unit" -> Unit
      [] v.t = "Int" -> IntegerConstant(v.ival)
      [] v.t = "Char" -> CharConstant(v.ch)
      [] v.t = "Str" -> StringConstant(v.str)
      [] v.t = "Bool" -> IF v.b THEN True ELSE False
      [] v.t = "Array" ->
            LET items == [i \in 1..Len(v.items) |-> map_dynamic_to_expr(v.items[i])]
            IN  IF \A i \in 1..Len(items) : items[i] # NoneV
                THEN Array(items) ELSE NoneV
      [] v.t = "Map" ->
            LET items == [i \in 1..Len(v.pairs) |->
                            [key |-> v.pairs[i].key,
                             val |-> map_dynamic_to_expr(v.pairs[i].val)]]
            IN  IF \A i \in 1..Len(items) : items[i].val # NoneV
                THEN Map(items) ELSE NoneV
      [] OTHER -> NoneV

----------------------------------------------------------------------------
(* State: the mutable state of one optimization pass, with the engine,     *)
(* the library and the level it carries.                                   *)
NewState(eng, l, lvl) ==
    [changed |-> FALSE, constants |-> <<>>, engine |-> eng, lib |-> l,
     optimization_level |-> lvl]

reset(st) == [st EXCEPT !.changed = FALSE]

set_dirty(st) == [st EXCEPT !.changed = TRUE]

is_dirty(st) == st.changed

contains_constant(st, name) ==
    \E i \in 1..Len(st.constants) : st.constants[i].name = name

(* the constants pushed since are kept *)
restore_constants_Keep(st, len) == st

restore_constants(st, len) ==
    [st EXCEPT !.constants = SubSeq(st.constants, 1, len)]

push_constant(st, name, value) ==
    [st EXCEPT !.constants = Append(st.constants, [name |-> name, e |-> value])]

(* the entry of that name pushed last *)
find_constant(st, name) ==
    LET idx == {i \in 1..Len(st.constants) : st.constants[i].name = name}
        top == CHOOSE i \in idx : \A j \in idx : j <= i
    IN  st.constants[top].e

----------------------------------------------------------------------------
(* Collaborators outside src/: the tokenizer's identifier test, the        *)
(* built-in operators and the engine's native call.                        *)
OperatorNames == {"+", "==", "!=", "/", "!"}

is_valid_identifier(name) == name \notin OperatorNames

TypeIds(args) == [i \in 1..Len(args) |-> args[i].t]

has_override_by_name_and_arguments(eng, name, types) ==
    [name |-> name, types |-> types] \in eng.overrides

(* run_builtin_binary_op(..).ok().flatten(): NoneV when there is no        *)
(* built-in for the operand types or the operation raises an error         *)
run_builtin_binary_op(name, x, y) ==
    IF x.t = "Int" /\ y.t = "Int"
    THEN CASE name = "+" -> DInt(x.ival + y.ival)
           [] name = "/" -> IF y.ival = 0 THEN NoneV ELSE DInt(x.ival \div y.ival)
           [] name = "==" -> DBool(x.ival = y.ival)
           [] name = "!=" -> DBool(x.ival # y.ival)
           [] OTHER -> NoneV
    ELSE IF x.t = "Bool" /\ y.t = "Bool"
    THEN CASE name = "==" -> DBool(x.b = y.b)
           [] name = "!=" -> DBool(x.b # y.b)
           [] OTHER -> NoneV
    ELSE NoneV

(* Engine::call_native_fn(..).ok(): the engine maps a function name to an  *)
(* implementation: not registered, raising an error, the operator of the   *)
(* standard package, or a function returning a fixed value                 *)
call_native_fn(eng, name, args) ==
    LET impl == eng.native[name]
    IN  CASE impl.kind = "Builtin" ->
                IF Len(args) = 2
                THEN run_builtin_binary_op(name, args[1], args[2])
                ELSE NoneV
          [] impl.kind = "Value" -> impl.val
          [] OTHER -> NoneV

map_type_name(v) == <<v.t>>

call_fn_with_constant_arguments(st, fn_name, arg_values) ==
    call_native_fn(st.engine, fn_name, arg_values)

----------------------------------------------------------------------------
(* no keyword is exempt from evaluation *)
DONT_EVAL_KEYWORDS_None == {}

(* optimize_expr, lines 429-435 *)
DONT_EVAL_KEYWORDS == {"print", "debug", "eval", "is_def_fn", "is_def_var"}

KEYWORD_TYPE_OF == "type_of"

(* str::contains for a string pattern and for a character *)
ContainsStr(b, a) ==
    \E i \in 0..(Len(b) - Len(a)) : SubSeq(b, i + 1, i + Len(a)) = a

ContainsChar(b, c) == \E i \in 1..Len(b) : b[i] = c

HasKey(pairs, key) == \E i \in 1..Len(pairs) : pairs[i].key = key

(* the value of the first pair with that key, or () when there is none *)
FindKey(pairs, key) ==
    IF HasKey(pairs, key)
    THEN LET i == CHOOSE i \in 1..Len(pairs) :
                     /\ pairs[i].key = key
                     /\ \A j \in 1..(i - 1) : pairs[j].key # key
         IN  pairs[i].val
    ELSE Unit

RECURSIVE optimize_stmt(_, _, _), optimize_expr(_, _), optimize_exprs(_, _),
          optimize_pairs(_, _), BlockMap(_, _, _), BlockAgain(_, _),
          RemoveTrailing(_, _)

(* a `let` of the source: F with the value v under its name *)
Bind(v, F(_)) == F(v)

(* args.into_iter().map(|a| optimize_expr(a, state)).collect() *)
optimize_exprs(es, st) ==
    IF es = <<>> THEN [r |-> <<>>, st |-> st]
    ELSE Bind(optimize_expr(Head(es), st), LAMBDA h :
         Bind(optimize_exprs(Tail(es), h.st), LAMBDA t :
         [r |-> <<h.r>> \o t.r, st |-> t.st]))

optimize_pairs(ps, st) ==
    IF ps = <<>> THEN [r |-> <<>>, st |-> st]
    ELSE Bind(optimize_expr(Head(ps).val, st), LAMBDA h :
         Bind(optimize_pairs(Tail(ps), h.st), LAMBDA t :
         [r |-> <<[key |-> Head(ps).key, val |-> h.r]>> \o t.r, st |-> t.st]))

(* lhs and rhs of a binary node, lhs first *)
OptimizeBinary(e, st) ==
    Bind(optimize_expr(e.lhs, st), LAMBDA l :
    Bind(optimize_expr(e.rhs, l.st), LAMBDA r :
    [r |-> [e EXCEPT !.lhs = l.r, !.rhs = r.r], st |-> r.st]))

(* a call whose arguments alone are optimized *)
OptimizeCallArgs(e, st) ==
    Bind(optimize_exprs(e.args, st), LAMBDA a :
    [r |-> [e EXCEPT !.args = a.r], st |-> a.st])

ArgValues(args) == [i \in 1..Len(args) |-> get_constant_value(args[i])]

AllConstant(args) == \A i \in 1..Len(args) : is_constant(args[i])

AllPure(items) == \A i \in 1..Len(items) : expr_is_pure(items[i])

AllPureVals(pairs) == \A i \in 1..Len(pairs) : expr_is_pure(pairs[i].val)

(* the Simple-level arm without the search for an override *)
OptimizeBuiltinCall_IgnoreOverride(e, st) ==
    Bind(ArgValues(e.args), LAMBDA arg_values :
    Bind(run_builtin_binary_op(e.name, arg_values[1], arg_values[2]), LAMBDA v :
    Bind(IF v = NoneV THEN NoneV ELSE map_dynamic_to_expr(v), LAMBDA folded :
    IF folded # NoneV
    THEN [r |-> folded, st |-> set_dirty(st)]
    ELSE OptimizeCallArgs(e, st))))

(* optimize_expr, lines 619-645: built-in binary operators at Simple *)
OptimizeBuiltinCall(e, st) ==
    Bind(ArgValues(e.args), LAMBDA arg_values :
    Bind(IF has_override_by_name_and_arguments(st.engine, e.name, TypeIds(arg_values))
         THEN NoneV
         ELSE Bind(run_builtin_binary_op(e.name, arg_values[1], arg_values[2]),
                   LAMBDA v : IF v = NoneV THEN NoneV ELSE map_dynamic_to_expr(v)),
         LAMBDA folded :
    IF folded # NoneV
    THEN [r |-> folded, st |-> set_dirty(st)]
    ELSE OptimizeCallArgs(e, st)))

(* the Full-level arm substituting () when the evaluation gives nothing *)
OptimizeEagerCall_UnitOnFailure(e, st) ==
    Bind([name |-> e.name, arity |-> Len(e.args)] \in st.lib, LAMBDA has_script_fn :
    Bind(call_fn_with_constant_arguments(st, e.name, ArgValues(e.args)), LAMBDA called :
    Bind(IF called = NoneV THEN Unit ELSE map_dynamic_to_expr(called), LAMBDA folded :
    IF ~has_script_fn /\ folded # NoneV
    THEN [r |-> folded, st |-> set_dirty(st)]
    ELSE OptimizeCallArgs(e, st))))

(* optimize_expr, lines 647-691: eager evaluation at Full *)
OptimizeEagerCall(e, st) ==
    Bind([name |-> e.name, arity |-> Len(e.args)] \in st.lib, LAMBDA has_script_fn :
    Bind(ArgValues(e.args), LAMBDA arg_values :
    Bind(IF e.name = KEYWORD_TYPE_OF /\ Len(arg_values) = 1
         THEN map_type_name(arg_values[1]) ELSE <<>>, LAMBDA arg_for_type_of :
    Bind(call_fn_with_constant_arguments(st, e.name, arg_values), LAMBDA called :
    Bind(IF called # NoneV THEN called
         ELSE IF arg_for_type_of # <<>> THEN DStr(arg_for_type_of)
         ELSE IF e.def # NoneV THEN DBool(e.def.b)
         ELSE NoneV, LAMBDA value :
    Bind(IF has_script_fn \/ value = NoneV THEN NoneV
         ELSE map_dynamic_to_expr(value), LAMBDA folded :
    IF folded # NoneV
    THEN [r |-> folded, st |-> set_dirty(st)]
    ELSE OptimizeCallArgs(e, st)))))))

optimize_expr(e, st) ==
    CASE e.k = "Expr" ->
            Bind(optimize_expr(e.e, st), LAMBDA x :
                 [r |-> ExprExpr(x.r), st |-> x.st])
      [] e.k = "Stmt" ->
            IF e.s.k = "Noop" THEN [r |-> Unit, st |-> set_dirty(st)]
            ELSE IF e.s.k = "SExpr" THEN optimize_expr(e.s.e, set_dirty(st))
            ELSE Bind(optimize_stmt(e.s, st, TRUE), LAMBDA x :
                      [r |-> ExprStmt(x.r), st |-> x.st])
      [] e.k = "Dot" ->
            IF e.lhs.k = "Map" /\ e.rhs.k = "Prop" /\ AllPureVals(e.lhs.pairs)
            THEN [r |-> FindKey(e.lhs.pairs, e.rhs.str), st |-> set_dirty(st)]
            ELSE OptimizeBinary(e, st)
      [] e.k = "Index" ->
            IF /\ e.lhs.k = "Array" /\ e.rhs.k = "Int"
               /\ e.rhs.ival >= 0 /\ e.rhs.ival < Len(e.lhs.items)
               /\ AllPure(e.lhs.items)
            THEN [r |-> e.lhs.items[e.rhs.ival + 1], st |-> set_dirty(st)]
            ELSE IF e.lhs.k = "Map" /\ e.rhs.k = "Str" /\ AllPureVals(e.lhs.pairs)
            THEN [r |-> FindKey(e.lhs.pairs, e.rhs.str), st |-> set_dirty(st)]
            ELSE IF /\ e.lhs.k = "Str" /\ e.rhs.k = "Int"
                    /\ e.rhs.ival >= 0 /\ e.rhs.ival < Len(e.lhs.str)
            THEN [r |-> CharConstant(e.lhs.str[e.rhs.ival + 1]), st |-> set_dirty(st)]
            ELSE OptimizeBinary(e, st)
      [] e.k = "Array" ->
            Bind(optimize_exprs(e.items, st), LAMBDA x :
                 [r |-> Array(x.r), st |-> x.st])
      [] e.k = "Map" ->
            Bind(optimize_pairs(e.pairs, st), LAMBDA x :
                 [r |-> Map(x.r), st |-> x.st])
      [] e.k = "In" ->
            IF e.lhs.k = "Str" /\ e.rhs.k = "Str"
            THEN [r |-> IF ContainsStr(e.rhs.str, e.lhs.str) THEN True ELSE False,
                  st |-> set_dirty(st)]
            ELSE IF e.lhs.k = "Char" /\ e.rhs.k = "Str"
            THEN [r |-> IF ContainsChar(e.rhs.str, e.lhs.ch) THEN True ELSE False,
                  st |-> set_dirty(st)]
            ELSE IF e.lhs.k = "Str" /\ e.rhs.k = "Map"
            THEN [r |-> IF HasKey(e.rhs.pairs, e.lhs.str) THEN True ELSE False,
                  st |-> set_dirty(st)]
            ELSE IF e.lhs.k = "Char" /\ e.rhs.k = "Map"
            THEN [r |-> IF HasKey(e.rhs.pairs, <<e.lhs.ch>>) THEN True ELSE False,
                  st |-> set_dirty(st)]
            ELSE OptimizeBinary(e, st)
      [] e.k = "And" ->
            IF e.lhs.k = "True" THEN [r |-> e.rhs, st |-> set_dirty(st)]
            ELSE IF e.lhs.k = "False" THEN [r |-> False, st |-> set_dirty(st)]
            ELSE IF e.rhs.k = "True" THEN optimize_expr(e.lhs, set_dirty(st))
            ELSE OptimizeBinary(e, st)
      [] e.k = "Or" ->
            IF e.lhs.k = "False" THEN [r |-> e.rhs, st |-> set_dirty(st)]
            ELSE IF e.lhs.k = "True" THEN [r |-> True, st |-> set_dirty(st)]
            ELSE IF e.rhs.k = "False" THEN optimize_expr(e.lhs, set_dirty(st))
            ELSE OptimizeBinary(e, st)
      [] e.k = "FnCall" ->
            IF e.name \in DONT_EVAL_KEYWORDS THEN OptimizeCallArgs(e, st)
            ELSE IF /\ ~e.q
                    /\ st.optimization_level = "Simple"
                    /\ Len(e.args) = 2
                    /\ AllConstant(e.args)
                    /\ ~is_valid_identifier(e.name)
            THEN OptimizeBuiltinCall(e, st)
            ELSE IF /\ ~e.q
                    /\ st.optimization_level = "Full"
                    /\ AllConstant(e.args)
            THEN OptimizeEagerCall(e, st)
            ELSE OptimizeCallArgs(e, st)
      [] e.k = "Var" /\ ~e.q /\ contains_constant(st, e.name) ->
            [r |-> find_constant(st, e.name), st |-> set_dirty(st)]
      [] e.k = "Custom" ->
            Bind(optimize_exprs(e.items, st), LAMBDA x :
                 [r |-> Custom(x.r), st |-> x.st])
      [] OTHER -> [r |-> e, st |-> st]

----------------------------------------------------------------------------
(* Block arm, lines 282-303: every statement of the block in order;        *)
(* literal and value-less constants go to the state and leave a Noop       *)
BlockMap(ss, st, preserve_result) ==
    IF ss = <<>> THEN [r |-> <<>>, st |-> st]
    ELSE Bind(Head(ss), LAMBDA stmt :
         Bind(IF stmt.k = "Const" /\ stmt.init # NoneV /\ is_literal(stmt.init)
              THEN [r |-> Noop,
                    st |-> push_constant(set_dirty(st), stmt.name, stmt.init)]
              ELSE IF stmt.k = "Const" /\ stmt.init = NoneV
              THEN [r |-> Noop,
                    st |-> push_constant(set_dirty(st), stmt.name, Unit)]
              ELSE optimize_stmt(stmt, st, preserve_result), LAMBDA h :
         Bind(BlockMap(Tail(ss), h.st, preserve_result), LAMBDA t :
         [r |-> <<h.r>> \o t.r, st |-> t.st])))

(* result.retain(|stmt| !stmt.is_pure()) *)
RetainImpure(ss) == SelectSeq(ss, LAMBDA x : ~stmt_is_pure(x))

(* Block arm, lines 306-312 *)
DropPure(ss, preserve_result) ==
    IF preserve_result /\ ss # <<>>
    THEN RetainImpure(SubSeq(ss, 1, Len(ss) - 1)) \o <<ss[Len(ss)]>>
    ELSE RetainImpure(ss)

(* Block arm, lines 317-331: pops let/import statements off the end;       *)
(* `removed` is what the last popped declaration set it to                 *)
RemoveTrailing(ss, removed) ==
    IF ss = <<>> THEN [r |-> ss, removed |-> removed]
    ELSE Bind(ss[Len(ss)], LAMBDA x :
         Bind(SubSeq(ss, 1, Len(ss) - 1), LAMBDA rest :
         IF x.k = "Let"
         THEN RemoveTrailing(rest, IF x.init = NoneV THEN TRUE
                                   ELSE expr_is_pure(x.init))
         ELSE IF x.k = "Import"
         THEN RemoveTrailing(rest, expr_is_pure(x.e))
         ELSE [r |-> ss, removed |-> removed]))

(* Block arm, lines 339-345: the statements once more, in order, the last  *)
(* one preserving its result                                               *)
BlockAgain(ss, st) ==
    IF ss = <<>> THEN [r |-> <<>>, st |-> st]
    ELSE Bind(optimize_stmt(Head(ss), st, Len(ss) = 1), LAMBDA h :
         Bind(BlockAgain(Tail(ss), h.st), LAMBDA t :
         [r |-> <<h.r>> \o t.r, st |-> t.st]))

IsExit(s) == s.k \in {"Return", "Break"}

(* the block arm keeping the statements that follow a return/break *)
DropDeadCode_KeepAll(ss) == ss

(* Block arm, lines 349-362: nothing is kept after the first return/break  *)
DropDeadCode(ss) ==
    Bind({i \in 1..Len(ss) : IsExit(ss[i])}, LAMBDA exits :
    IF exits = {} THEN ss
    ELSE SubSeq(ss, 1, CHOOSE i \in exits : \A j \in exits : i <= j))

(* Block arm, lines 372-389 *)
BlockResult(ss, st) ==
    IF ss = <<>> THEN [r |-> Noop, st |-> set_dirty(st)]
    ELSE IF Len(ss) = 1 /\ ss[1].k \in {"Let", "Import"}
    THEN [r |-> Block(ss), st |-> st]
    ELSE IF Len(ss) = 1 THEN [r |-> ss[1], st |-> set_dirty(st)]
    ELSE [r |-> Block(ss), st |-> st]

OptimizeBlock(stmt, st, preserve_result) ==
    Bind(Len(stmt.stmts), LAMBDA orig_len :
    Bind(Len(st.constants), LAMBDA orig_constants_len :
    Bind(BlockMap(stmt.stmts, st, preserve_result), LAMBDA mapped :
    Bind(DropPure(mapped.r, preserve_result), LAMBDA kept :
    Bind(RemoveTrailing(kept, FALSE), LAMBDA trimmed :
    Bind(IF preserve_result
         THEN BlockAgain(IF trimmed.removed
                         THEN Append(trimmed.r, Noop) ELSE trimmed.r,
                         mapped.st)
         ELSE [r |-> trimmed.r, st |-> mapped.st], LAMBDA again :
    Bind(DropDeadCode(again.r), LAMBDA live :
    Bind(IF orig_len # Len(live) THEN set_dirty(again.st) ELSE again.st, LAMBDA st1 :
    BlockResult(live, restore_constants(st1, orig_constants_len))))))))))

(* OptimizeIf whose `if expr { Noop }` arm flags a change and returns the  *)
(* statement as it was                                                     *)
OptimizeIf_NoopArmKeepsIf(stmt, st, preserve_result) ==
    IF stmt.cond.k = "False" /\ stmt.else = NoneV
    THEN [r |-> Noop, st |-> set_dirty(st)]
    ELSE IF stmt.cond.k = "True" /\ stmt.else = NoneV
    THEN optimize_stmt(stmt.then, st, TRUE)
    ELSE IF stmt.else = NoneV /\ stmt.then.k = "Noop"
    THEN Bind(optimize_expr(stmt.cond, set_dirty(st)), LAMBDA c :
         [r |-> IfThenElse(c.r, stmt.then, NoneV), st |-> c.st])
    ELSE IF stmt.else = NoneV
    THEN Bind(optimize_expr(stmt.cond, st), LAMBDA c :
         Bind(optimize_stmt(stmt.then, c.st, TRUE), LAMBDA t :
         [r |-> IfThenElse(c.r, t.r, NoneV), st |-> t.st]))
    ELSE IF stmt.cond.k = "False"
    THEN optimize_stmt(stmt.else, st, TRUE)
    ELSE IF stmt.cond.k = "True"
    THEN optimize_stmt(stmt.then, st, TRUE)
    ELSE Bind(optimize_expr(stmt.cond, st), LAMBDA c :
         Bind(optimize_stmt(stmt.then, c.st, TRUE), LAMBDA t :
         Bind(optimize_stmt(stmt.else, t.st, TRUE), LAMBDA f :
         [r |-> IfThenElse(c.r, t.r, IF f.r.k = "Noop" THEN NoneV ELSE f.r),
          st |-> f.st])))

(* optimize_stmt, lines 171-220: the if arms, in the order of the match *)
OptimizeIf(stmt, st, preserve_result) ==
    IF stmt.cond.k = "False" /\ stmt.else = NoneV
    THEN [r |-> Noop, st |-> set_dirty(st)]
    ELSE IF stmt.cond.k = "True" /\ stmt.else = NoneV
    THEN optimize_stmt(stmt.then, st, TRUE)
    ELSE IF stmt.else = NoneV /\ stmt.then.k = "Noop"
    THEN Bind(optimize_expr(stmt.cond, set_dirty(st)), LAMBDA c :
         IF preserve_result
         THEN [r |-> Block(<<StmtExpr(c.r), stmt.then>>), st |-> c.st]
         ELSE [r |-> StmtExpr(c.r), st |-> c.st])
    ELSE IF stmt.else = NoneV
    THEN Bind(optimize_expr(stmt.cond, st), LAMBDA c :
         Bind(optimize_stmt(stmt.then, c.st, TRUE), LAMBDA t :
         [r |-> IfThenElse(c.r, t.r, NoneV), st |-> t.st]))
    ELSE IF stmt.cond.k = "False"
    THEN optimize_stmt(stmt.else, st, TRUE)
    ELSE IF stmt.cond.k = "True"
    THEN optimize_stmt(stmt.then, st, TRUE)
    ELSE Bind(optimize_expr(stmt.cond, st), LAMBDA c :
         Bind(optimize_stmt(stmt.then, c.st, TRUE), LAMBDA t :
         Bind(optimize_stmt(stmt.else, t.st, TRUE), LAMBDA f :
         [r |-> IfThenElse(c.r, t.r, IF f.r.k = "Noop" THEN NoneV ELSE f.r),
          st |-> f.st])))

(* optimize_stmt, lines 222-248: the while arms *)
OptimizeWhile(stmt, st, preserve_result) ==
    IF stmt.cond.k = "False" THEN [r |-> Noop, st |-> set_dirty(st)]
    ELSE IF stmt.cond.k = "True"
    THEN Bind(optimize_stmt(stmt.body, st, FALSE), LAMBDA b :
         [r |-> Loop(b.r), st |-> b.st])
    ELSE Bind(optimize_stmt(stmt.body, st, FALSE), LAMBDA b :
         IF b.r.k = "Break"
         THEN Bind(optimize_expr(stmt.cond, set_dirty(b.st)), LAMBDA c :
              [r |-> Block(IF preserve_result
                           THEN <<StmtExpr(c.r), Noop>>
                           ELSE <<StmtExpr(c.r)>>),
               st |-> c.st])
         ELSE Bind(optimize_expr(stmt.cond, b.st), LAMBDA c :
              [r |-> While(c.r, b.r), st |-> c.st]))

(* the loop arm without the rewrite of `loop { break; }` *)
OptimizeLoopStmt_KeepBreak(stmt, st) ==
    Bind(optimize_stmt(stmt.body, st, FALSE), LAMBDA b :
    [r |-> Loop(b.r), st |-> b.st])

(* optimize_stmt, lines 249-259: the loop arm *)
OptimizeLoopStmt(stmt, st) ==
    Bind(optimize_stmt(stmt.body, st, FALSE), LAMBDA b :
    IF b.r.k = "Break" THEN [r |-> Noop, st |-> set_dirty(b.st)]
    ELSE [r |-> Loop(b.r), st |-> b.st])

optimize_stmt(stmt, st, preserve_result) ==
    CASE stmt.k = "Assign" ->
            Bind(optimize_expr(stmt.lhs, st), LAMBDA l :
            Bind(optimize_expr(stmt.rhs, l.st), LAMBDA r :
            [r |-> Assignment(l.r, stmt.op, r.r), st |-> r.st]))
      [] stmt.k = "If" -> OptimizeIf(stmt, st, preserve_result)
      [] stmt.k = "While" -> OptimizeWhile(stmt, st, preserve_result)
      [] stmt.k = "Loop" -> OptimizeLoopStmt(stmt, st)
      [] stmt.k = "For" ->
            Bind(optimize_expr(stmt.iter, st), LAMBDA i :
            Bind(optimize_stmt(stmt.body, i.st, FALSE), LAMBDA b :
            [r |-> For(i.r, stmt.name, b.r), st |-> b.st]))
      [] stmt.k = "Let" /\ stmt.init # NoneV ->
            Bind(optimize_expr(stmt.init, st), LAMBDA x :
            [r |-> Let(stmt.name, x.r), st |-> x.st])
      [] stmt.k = "Import" ->
            Bind(optimize_expr(stmt.e, st), LAMBDA x :
            [r |-> Import(x.r, stmt.alias), st |-> x.st])
      [] stmt.k = "Block" -> OptimizeBlock(stmt, st, preserve_result)
      [] stmt.k = "TryCatch" ->
            IF stmt_is_pure(stmt.try)
            THEN Bind(optimize_stmt(stmt.try, set_dirty(st), preserve_result), LAMBDA t :
                 [r |-> Block(<<t.r, Noop>>), st |-> t.st])
            ELSE Bind(optimize_stmt(stmt.try, st, FALSE), LAMBDA t :
                 Bind(optimize_stmt(stmt.catch, t.st, FALSE), LAMBDA c :
                 [r |-> TryCatch(t.r, stmt.var, c.r), st |-> c.st]))
      [] stmt.k = "SExpr" ->
            IF stmt.e.k = "Stmt" /\ stmt.e.s.k = "SExpr"
            THEN optimize_stmt(stmt.e.s, set_dirty(st), preserve_result)
            ELSE Bind(optimize_expr(stmt.e, st), LAMBDA x :
                 [r |-> StmtExpr(x.r), st |-> x.st])
      [] stmt.k = "Return" /\ stmt.init # NoneV ->
            Bind(optimize_expr(stmt.init, st), LAMBDA x :
            [r |-> ReturnWithVal(stmt.ret, x.r), st |-> x.st])
      [] OTHER -> [r |-> stmt, st |-> st]

----------------------------------------------------------------------------
(* optimize(), lines 739-756: the constant entries of the scope that have  *)
(* an expression or a value with a literal form                            *)
ScopeConstants(sc) ==
    LET val(en) == IF en.expr # NoneV THEN en.expr ELSE map_dynamic_to_expr(en.value)
        usable == SelectSeq(sc, LAMBDA en : en.typ = "Constant" /\ val(en) # NoneV)
    IN  [i \in 1..Len(usable) |-> [name |-> usable[i].name, e |-> val(usable[i])]]

RECURSIVE PassMap(_, _, _, _)
(* optimize(), lines 769-809: statement i (from 0) of num_statements *)
PassMap(ss, i, num_statements, st) ==
    IF ss = <<>> THEN [r |-> <<>>, st |-> st]
    ELSE Bind(Head(ss), LAMBDA stmt :
         Bind(IF stmt.k = "Const" /\ stmt.init # NoneV
              THEN Bind(optimize_expr(stmt.init, st), LAMBDA x :
                   Bind(IF is_literal(x.r)
                        THEN push_constant(x.st, stmt.name, x.r)
                        ELSE x.st, LAMBDA st1 :
                   IF is_unit(x.r)
                   THEN [r |-> Const(stmt.name, NoneV), st |-> set_dirty(st1)]
                   ELSE [r |-> Const(stmt.name, x.r), st |-> st1]))
              ELSE IF stmt.k = "Const"
              THEN [r |-> stmt, st |-> push_constant(st, stmt.name, Unit)]
              ELSE Bind(IF stmt.k \in {"Let", "Import"} THEN TRUE
                        ELSE i = num_statements - 1, LAMBDA keep :
                   optimize_stmt(stmt, st, keep)), LAMBDA h :
         Bind(PassMap(Tail(ss), i + 1, num_statements, h.st), LAMBDA t :
         [r |-> <<h.r>> \o t.r, st |-> t.st])))

(* optimize(), lines 764-809: one iteration of the optimization loop *)
Pass(res, st, orig_constants_len) ==
    PassMap(res, 0, Len(res), restore_constants(reset(st), orig_constants_len))

(* the final cleanup keeping the pure statements *)
Cleanup_KeepPure(res) ==
    IF res = <<>> THEN res
    ELSE Bind(res[Len(res)], LAMBDA last_stmt :
         Bind(SubSeq(res, 1, Len(res) - 1), LAMBDA kept :
         IF kept # <<>> \/ ~is_noop(last_stmt)
         THEN Append(kept, last_stmt) ELSE kept))

(* optimize(), lines 816-829 *)
Cleanup(res) ==
    IF res = <<>> THEN res
    ELSE Bind(res[Len(res)], LAMBDA last_stmt :
         Bind(RetainImpure(SubSeq(res, 1, Len(res) - 1)), LAMBDA kept :
         IF kept # <<>> \/ ~is_noop(last_stmt)
         THEN Append(kept, last_stmt) ELSE kept))

(* optimize(), lines 737-758 *)
InitialState(eng, sc, l, lvl) ==
    [NewState(eng, l, lvl) EXCEPT !.constants = ScopeConstants(sc)]

RECURSIVE OptimizeLoop(_, _, _)
OptimizeLoop(res, st, orig_constants_len) ==
    Bind(Pass(res, st, orig_constants_len), LAMBDA p :
    IF is_dirty(p.st) THEN OptimizeLoop(p.r, p.st, orig_constants_len)
    ELSE p.r)

(* optimize() as a function of its arguments *)
optimize(stmts, eng, sc, l, lvl) ==
    IF lvl = "None" THEN stmts
    ELSE Bind(InitialState(eng, sc, l, lvl), LAMBDA st :
         Cleanup(OptimizeLoop(stmts, st, Len(st.constants))))

----------------------------------------------------------------------------
(* ScriptFnDef and the signatures a library exposes to the optimizer *)
ScriptFnDef(name, params, externals, body) ==
    [name |-> name, access |-> "Public", params |-> params, externals |-> externals,
     body |-> body]

Signatures(fns) ==
    {[name |-> fns[i].name, arity |-> Len(fns[i].params)] : i \in 1..Len(fns)}

(* the optimized body is stored as it is, a `return` included *)
OptimizeFnDef_KeepReturn(fn_def, eng, lib2, lvl) ==
    Bind(optimize(<<fn_def.body>>, eng, <<>>, lib2, lvl), LAMBDA body :
    [fn_def EXCEPT !.body = IF body = <<>> THEN Noop ELSE body[Len(body)]])

(* optimize_into_ast, lines 873-896: one function of the library *)
OptimizeFnDef(fn_def, eng, lib2, lvl) ==
    Bind(optimize(<<fn_def.body>>, eng, <<>>, lib2, lvl), LAMBDA body :
    Bind(IF body = <<>> THEN Noop ELSE body[Len(body)], LAMBDA last :
    [fn_def EXCEPT !.body =
        IF last.k = "Return" /\ last.ret = "Return" /\ last.init # NoneV
        THEN StmtExpr(last.init)
        ELSE IF last.k = "Return" /\ last.ret = "Return"
        THEN StmtExpr(Unit)
        ELSE last]))

(* optimize_into_ast, lines 847-907: the library of the returned AST *)
BuildModule(fns, eng, lvl) ==
    IF lvl = "None" THEN fns
    ELSE [i \in 1..Len(fns) |-> OptimizeFnDef(fns[i], eng, Signatures(fns), lvl)]

----------------------------------------------------------------------------
(* The parser.  A token is a string and the position of a token is its     *)
(* index in the script; the token stream gives EOF past the last token.    *)
(* Positions inside the AST are not part of the model: an error raised at  *)
(* the position of an expression carries Position::none(), which is 0.     *)
Identifiers == {"x", "y", "a", "b", "c", "f", "g"}

IntegerTokens == {"1"}

EOF == "EOF"

(* Token::precedence and Token::is_bind_right for the operators used *)
precedence(token) ==
    CASE token = "||" -> 30
      [] token = "|" -> 30
      [] token = "&&" -> 60
      [] token = "+" -> 150
      [] token = "*" -> 180
      [] token = "." -> 240
      [] OTHER -> 0

is_bind_right(token) == token = "."

(* Variable with the offset into the stack that access_var returned: an   *)
(* Option<NonZeroUsize>, whose None is 0                                   *)
IndexedVariable(n, index) == [k |-> "Var", name |-> n, q |-> FALSE, index |-> index]

(* the position of an AST node *)
NoPos == 0

(* ParseError: PERR::xxx(..).into_err(pos) *)
PERR(e, arg, pos) == [e |-> e, arg |-> arg, pos |-> pos]

(* Result<T, ParseError> together with the input, the parse state and the  *)
(* library the function was given by mutable reference                     *)
Ok(r, c) == [err |-> NoneV, r |-> r, c |-> c]

Err(e, c) == [err |-> e, r |-> NoneV, c |-> c]

(* the ? operator *)
Try(res, F(_)) == IF res.err # NoneV THEN res ELSE F(res)

(* ParseState::new, lines 617-639, with the token stream and the library   *)
(* that every parse function receives next to it; order is the iteration   *)
(* order of the externals' hash map                                        *)
ParseState(toks, max_expr_depth, max_function_expr_depth, order) ==
    [toks |-> toks, at |-> 1, lib |-> <<>>, order |-> order,
     stack |-> <<>>, modules |-> <<>>, externals |-> {}, positions |-> {},
     allow_capture |-> TRUE,
     max_expr_depth |-> max_expr_depth,
     max_function_expr_depth |-> max_function_expr_depth]

(* lines 2198-2204 and 3313-3319: the state a function is parsed with *)
FnParseState(c) ==
    [c EXCEPT !.stack = <<>>, !.modules = <<>>, !.externals = {},
              !.positions = {}, !.allow_capture = TRUE,
              !.max_expr_depth = c.max_function_expr_depth]

(* back in the enclosing function: its state, the input and the library    *)
(* where the function's parse left them                                    *)
OuterParseState(outer, inner) ==
    [outer EXCEPT !.toks = inner.toks, !.at = inner.at, !.lib = inner.lib]

(* input.peek(), input.next(), match_token *)
peek(c) == IF c.toks = <<>> THEN EOF ELSE Head(c.toks)

next(c) == IF c.toks = <<>> THEN c ELSE [c EXCEPT !.toks = Tail(@), !.at = @ + 1]

peek2(c) == peek(next(c))

match_token(c, token) == IF peek(c) = token THEN next(c) ELSE c

(* ParseSettings, lines 694-721 *)
level_up(settings) == [settings EXCEPT !.level = @ + 1]

At(settings, c) == [settings EXCEPT !.pos = c.at]

(* ensure_level_within_max_limit, lines 725-733: the error or NoneV *)
ensure_level_within_max_limit(settings, limit) ==
    IF limit = 0 THEN NoneV
    ELSE IF settings.level > limit THEN PERR("ExprTooDeep", "", settings.pos)
    ELSE NoneV

(* the function's depth check followed by its body *)
Ensure(settings, c, F(_)) ==
    IF ensure_level_within_max_limit(settings, c.max_expr_depth) # NoneV
    THEN Err(ensure_level_within_max_limit(settings, c.max_expr_depth), c)
    ELSE F(c)

(* access_var, lines 649-668: the offset from the top of the stack of the  *)
(* innermost entry of that name, and the state with the capture recorded   *)
StackIndex(stack, name) ==
    Bind({j \in 1..Len(stack) : stack[j].name = name}, LAMBDA found :
    IF found = {} THEN 0
    ELSE Len(stack) - (CHOOSE j \in found : \A i \in found : i <= j) + 1)

(* the flag that suppresses the capture is never raised again *)
access_var_StaysSuppressed(c, name, pos) ==
    Bind(StackIndex(c.stack, name), LAMBDA index :
    [index |-> index,
     c |-> IF c.allow_capture
           THEN IF index = 0 /\ name \notin c.externals
                THEN [c EXCEPT !.externals = @ \cup {name},
                               !.positions = @ \cup {<<name, pos>>}]
                ELSE c
           ELSE c])

(* access_var, lines 649-668 *)
access_var(c, name, pos) ==
    Bind(StackIndex(c.stack, name), LAMBDA index :
    [index |-> index,
     c |-> IF c.allow_capture
           THEN IF index = 0 /\ name \notin c.externals
                THEN [c EXCEPT !.externals = @ \cup {name},
                               !.positions = @ \cup {<<name, pos>>}]
                ELSE c
           ELSE [c EXCEPT !.allow_capture = TRUE]])

Push(c, name, typ) == [c EXCEPT !.stack = Append(@, [name |-> name, typ |-> typ])]

(* Vec::truncate: nothing happens when the vector is not longer than len *)
truncate(vec, len) == IF len >= Len(vec) THEN vec ELSE SubSeq(vec, 1, len)

(* the custom syntaxes registered with the engine, by their leading token: *)
(* the change each makes to the depth of the scope and the segments its    *)
(* parse callback asks for after the leading token                         *)
MARKER_IDENT == "$ident$"

MARKER_EXPR == "$expr$"

MARKER_BLOCK == "$block$"

CustomKeys == {"grow", "drop", "drop2", "within", "each"}

custom_syntax(key) ==
    CASE key = "grow" -> [scope_delta |-> 1, segments |-> <<>>]
      [] key = "drop" -> [scope_delta |-> 0 - 1, segments |-> <<>>]
      [] key = "drop2" -> [scope_delta |-> 0 - 2, segments |-> <<>>]
      [] key = "within" -> [scope_delta |-> 0, segments |-> <<MARKER_BLOCK>>]
      [] key = "each" -> [scope_delta |-> 1,
                          segments |-> <<MARKER_IDENT, "in", MARKER_EXPR>>]

(* Stmt::is_self_terminated, lines 870-896 *)
is_self_terminated(s) == s.k \in {"If", "While", "Loop", "For", "Block", "TryCatch"}

(* Expr::is_valid_postfix, lines 1312-1359 *)
RECURSIVE is_valid_postfix(_, _)
is_valid_postfix(e, token) ==
    CASE e.k = "Expr" -> is_valid_postfix(e.e, token)
      [] e.k \in {"Str", "Stmt", "FnCall", "Dot", "Index", "Array", "Map"} -> token = "["
      [] e.k = "Var" -> token \in {"[", "(", "!", "::"}
      [] e.k = "Prop" -> token \in {"[", "("}
      [] OTHER -> FALSE

----------------------------------------------------------------------------
(* The parse functions.  Each takes the input, state and library as c and  *)
(* its ParseSettings by value, and gives a Result.                         *)
RECURSIVE parse_paren_expr(_, _), parse_fn_call(_, _, _), fn_call_args(_, _, _, _),
          parse_index_chain(_, _, _), parse_primary(_, _), postfix(_, _, _),
          parse_unary(_, _), make_dot_expr(_, _, _), parse_binary_op(_, _, _, _),
          binary_op_loop(_, _, _, _), parse_expr(_, _),
          parse_custom_syntax(_, _, _), custom_segments(_, _, _, _, _),
          parse_for(_, _), parse_import(_, _),
          parse_op_assignment_stmt(_, _, _), parse_let(_, _, _),
          parse_block(_, _), block_loop(_, _, _), parse_expr_stmt(_, _),
          parse_stmt(_, _), parse_fn(_, _), fn_params(_, _, _),
          parse_anon_fn(_, _), anon_fn_params(_, _, _)

(* parse_paren_expr, lines 1403-1430 *)
parse_paren_expr(c0, settings) ==
    Ensure(settings, c0, LAMBDA c :
    IF peek(c) = ")" THEN Ok(Unit, next(c))
    ELSE Try(parse_expr(c, level_up(settings)), LAMBDA res :
         IF peek(res.c) = ")" THEN Ok(res.r, next(res.c))
         ELSE Err(PERR("MissingToken", ")", res.c.at), next(res.c))))

(* parse_fn_call, lines 1495-1555: the loop over the arguments *)
fn_call_args(c0, id, args0, settings) ==
    Try(IF peek(c0) = ")" THEN Ok(args0, c0)
        ELSE Try(parse_expr(c0, settings), LAMBDA res :
                 Ok(Append(args0, res.r), res.c)),
        LAMBDA a :
    CASE peek(a.c) = ")" -> Ok(FnCall(id, FALSE, a.r, NoneV), next(a.c))
      [] peek(a.c) = "," -> fn_call_args(next(a.c), id, a.r, settings)
      [] peek(a.c) = EOF -> Err(PERR("MissingToken", ")", a.c.at), a.c)
      [] OTHER -> Err(PERR("MissingToken", ",", a.c.at), a.c))

(* parse_fn_call, lines 1433-1556 *)
parse_fn_call(c0, id, settings) ==
    Ensure(settings, c0, LAMBDA c :
    CASE peek(c) = EOF -> Err(PERR("MissingToken", ")", c.at), c)
      [] peek(c) = ")" -> Ok(FnCall(id, FALSE, <<>>, NoneV), next(c))
      [] OTHER -> fn_call_args(c, id, <<>>, level_up(settings)))

(* parse_index_chain, lines 1561-1745 *)
parse_index_chain(c0, lhs, settings) ==
    Ensure(settings, c0, LAMBDA c1 :
    Try(parse_expr(c1, level_up(settings)), LAMBDA idx :
    Bind(idx.r, LAMBDA idx_expr :
    Bind(idx.c, LAMBDA c :
    IF \/ /\ idx_expr.k = "Int"
          /\ lhs.k \in {"Map", "Char", "And", "Or", "In", "True", "False", "Unit"}
       \/ /\ idx_expr.k = "Str"
          /\ lhs.k \in {"Array", "Str", "Char", "And", "Or", "In", "True",
                        "False", "Unit"}
       \/ idx_expr.k \in {"Char", "Unit", "And", "Or", "In", "True", "False"}
    THEN Err(PERR("MalformedIndexExpr", "", NoPos), c)
    ELSE IF peek(c) # "]" THEN Err(PERR("MissingToken", "]", c.at), c)
    ELSE IF peek2(c) = "["
    THEN Try(parse_index_chain(next(next(c)), idx_expr, level_up(settings)),
             LAMBDA res : Ok(Index(lhs, res.r), res.c))
    ELSE IF idx_expr.k \in {"Index", "Dot", "FnCall"}
    THEN Ok(Index(lhs, ExprExpr(idx_expr)), next(c))
    ELSE Ok(Index(lhs, idx_expr), next(c))))))

(* parse_primary, lines 2051-2062: id2 qualified by the variable x, which   *)
(* becomes the last of its module qualifiers; the index of x is kept       *)
ModuleVariable(x, id2) ==
    [k |-> "Var", name |-> id2, q |-> TRUE, index |-> x.index,
     modules |-> Append(IF x.q THEN x.modules ELSE <<>>, x.name)]

(* parse_primary, lines 2011-2087: the postfix operators *)
postfix(c, root, settings) ==
    IF ~is_valid_postfix(root, peek(c)) THEN Ok(root, c)
    ELSE CASE root.k = "Var" /\ peek(c) = "(" ->
                Try(parse_fn_call(next(c), root.name, level_up(settings)),
                    LAMBDA res : postfix(res.c, [res.r EXCEPT !.q = root.q], settings))
           [] root.k = "Var" /\ peek(c) = "::" ->
                IF peek2(c) \in Identifiers
                THEN postfix(next(next(c)), ModuleVariable(root, peek2(c)),
                             At(settings, c))
                ELSE Err(PERR("VariableExpected", "", next(c).at), next(next(c)))
           [] peek(c) = "[" ->
                Try(parse_index_chain(next(c), root, level_up(At(settings, c))),
                    LAMBDA res : postfix(res.c, res.r, At(settings, c)))
           [] OTHER -> Err(PERR("BadInput", "Unexpected token", c.at), c)

(* parse_primary, lines 1914-2105 *)
parse_primary(c0, settings0) ==
    Bind(At(settings0, c0), LAMBDA settings :
    Ensure(settings, c0, LAMBDA c :
    IF peek(c) = "{" /\ settings.allow_stmt_expr
    THEN Try(parse_block(c, level_up(settings)), LAMBDA res :
             Ok(ExprStmt(res.r), res.c))
    ELSE IF peek(c) = EOF THEN Err(PERR("UnexpectedEOF", "", settings.pos), c)
    ELSE Try(CASE peek(c) \in IntegerTokens ->
                    Ok(IntegerConstant(1), next(c))
               [] peek(c) \in Identifiers /\ peek2(c) \in {"(", "!", "::"} ->
                    Ok(IndexedVariable(peek(c), 0),
                       [next(c) EXCEPT !.allow_capture = TRUE])
               [] peek(c) \in Identifiers ->
                    Bind(access_var(next(c), peek(c), c.at), LAMBDA av :
                    Ok(IndexedVariable(peek(c), av.index), av.c))
               [] peek(c) = "(" -> parse_paren_expr(next(c), level_up(settings))
               [] OTHER -> Err(PERR("BadInput", "Unexpected token", settings.pos),
                               next(c)),
             LAMBDA root : postfix(root.c, root.r, settings))))

(* FunctionsLib::insert, line 2226: the library is keyed by the hash of    *)
(* name and number of parameters                                           *)
lib_insert(lib, func) ==
    IF \E i \in 1..Len(lib) :
           lib[i].name = func.name /\ Len(lib[i].params) = Len(func.params)
    THEN [i \in 1..Len(lib) |->
             IF lib[i].name = func.name /\ Len(lib[i].params) = Len(func.params)
             THEN func ELSE lib[i]]
    ELSE Append(lib, func)

(* the entries of a hash map or set in its iteration order *)
InOrder(order, S) == SelectSeq(order, LAMBDA n : n \in S)

(* lines 2221-2224: every external of the function is accessed in the      *)
(* enclosing state                                                         *)
RECURSIVE AccessAll(_, _, _)
AccessAll(c, names, positions) ==
    IF names = <<>> THEN c
    ELSE AccessAll(access_var(c, Head(names),
                              (CHOOSE p \in positions : p[1] = Head(names))[2]).c,
                   Tail(names), positions)

(* lines 2206-2215 and 3321-3330: the settings a function is parsed with *)
FnSettings(pos) ==
    [level |-> 0, pos |-> pos, is_global |-> FALSE, is_function_scope |-> TRUE,
     is_breakable |-> FALSE, allow_if_expr |-> TRUE, allow_stmt_expr |-> TRUE,
     allow_anonymous_fn |-> TRUE]

(* parse_unary, lines 2108-2236 *)
parse_unary(c0, settings0) ==
    Bind(At(settings0, c0), LAMBDA settings :
    Ensure(settings, c0, LAMBDA c :
    IF peek(c) \in {"|", "||"} /\ settings.allow_anonymous_fn
    THEN Try(parse_anon_fn(FnParseState(c), FnSettings(c.at)), LAMBDA res :
             Ok(res.r.expr,
                AccessAll(OuterParseState(c, [res.c EXCEPT
                              !.lib = lib_insert(@, res.r.func)]),
                          InOrder(c.order, res.c.externals), res.c.positions)))
    ELSE IF peek(c) = EOF THEN Err(PERR("UnexpectedEOF", "", settings.pos), c)
    ELSE parse_primary(c, level_up(settings))))

(* Expr::into_property, lines 1364-1374 *)
into_property(e) ==
    IF e.k = "Var" /\ ~e.q THEN Property(<<e.name>>) ELSE e

(* make_dot_expr, lines 2337-2422 *)
make_dot_expr(c, lhs, rhs) ==
    CASE lhs.k = "Index" ->
            Try(make_dot_expr(c, lhs.rhs, rhs), LAMBDA res :
                Ok(Index(lhs.lhs, res.r), c))
      [] lhs.k # "Index" /\ rhs.k = "Var" /\ ~rhs.q ->
            Ok(Dot(lhs, Property(<<rhs.name>>)), c)
      [] lhs.k # "Index" /\ rhs.k = "Var" /\ rhs.q ->
            Err(PERR("PropertyExpected", "", NoPos), c)
      [] lhs.k # "Index" /\ rhs.k = "Prop" -> Ok(Dot(lhs, rhs), c)
      [] lhs.k # "Index" /\ rhs.k = "Dot" ->
            Ok(Dot(lhs, Dot(into_property(rhs.lhs), rhs.rhs)), c)
      [] lhs.k # "Index" /\ rhs.k = "Index" ->
            Ok(Dot(lhs, Index(into_property(rhs.lhs), rhs.rhs)), c)
      [] lhs.k # "Index" /\ rhs.k = "FnCall" ->
            IF rhs.args = <<>> /\ rhs.name \in {"Fn", "eval"}
            THEN Err(PERR("BadInput", "should not be called in method style",
                          NoPos), c)
            ELSE Ok(Dot(lhs, rhs), c)
      [] OTHER -> Err(PERR("PropertyExpected", "", NoPos), c)

(* the right-hand side is never extended: every operator binds to the left *)
binary_op_loop_LeftOnly(c, parent_precedence, root, settings) ==
    Bind(peek(c), LAMBDA current_op :
    IF \/ precedence(current_op) < parent_precedence
       \/ precedence(current_op) = parent_precedence /\ ~is_bind_right(current_op)
    THEN Ok(root, c)
    ELSE
    Try(parse_unary(IF current_op = "." /\ peek2(c) \in Identifiers
                    THEN [next(c) EXCEPT !.allow_capture = FALSE]
                    ELSE next(c),
                    settings), LAMBDA r1 :
    Try(r1, LAMBDA rhs :
    Ensure([level_up(settings) EXCEPT !.pos = c.at], rhs.c, LAMBDA c2 :
    Try(CASE current_op \in {"+", "*", "|"} ->
                Ok(FnCall(current_op, FALSE, <<root, rhs.r>>, NoneV), c2)
          [] current_op = "||" -> Ok(Or(root, rhs.r), c2)
          [] current_op = "&&" -> Ok(And(root, rhs.r), c2)
          [] current_op = "." -> make_dot_expr(c2, root, rhs.r)
          [] OTHER -> Err(PERR("UnknownOperator", current_op, c.at), c2),
        LAMBDA res :
    binary_op_loop(res.c, parent_precedence, res.r,
                   [level_up(settings) EXCEPT !.pos = c.at]))))))

(* parse_binary_op, lines 2579-2711: the loop, one operator per round *)
binary_op_loop(c, parent_precedence, root, settings) ==
    Bind(peek(c), LAMBDA current_op :
    IF \/ precedence(current_op) < parent_precedence
       \/ precedence(current_op) = parent_precedence /\ ~is_bind_right(current_op)
    THEN Ok(root, c)
    ELSE
    Try(parse_unary(IF current_op = "." /\ peek2(c) \in Identifiers
                    THEN [next(c) EXCEPT !.allow_capture = FALSE]
                    ELSE next(c),
                    settings), LAMBDA r1 :
    Try(IF \/ /\ precedence(current_op) = precedence(peek(r1.c))
              /\ is_bind_right(current_op)
           \/ precedence(current_op) < precedence(peek(r1.c))
        THEN parse_binary_op(r1.c, precedence(current_op), r1.r, settings)
        ELSE r1, LAMBDA rhs :
    Ensure([level_up(settings) EXCEPT !.pos = c.at], rhs.c, LAMBDA c2 :
    Try(CASE current_op \in {"+", "*", "|"} ->
                Ok(FnCall(current_op, FALSE, <<root, rhs.r>>, NoneV), c2)
          [] current_op = "||" -> Ok(Or(root, rhs.r), c2)
          [] current_op = "&&" -> Ok(And(root, rhs.r), c2)
          [] current_op = "." -> make_dot_expr(c2, root, rhs.r)
          [] OTHER -> Err(PERR("UnknownOperator", current_op, c.at), c2),
        LAMBDA res :
    binary_op_loop(res.c, parent_precedence, res.r,
                   [level_up(settings) EXCEPT !.pos = c.at]))))))

(* parse_binary_op, lines 2564-2578 *)
parse_binary_op(c0, parent_precedence, lhs, settings) ==
    Ensure([settings EXCEPT !.pos = NoPos], c0, LAMBDA c :
    binary_op_loop(c, parent_precedence, lhs, [settings EXCEPT !.pos = NoPos]))

(* parse_custom_syntax, lines 2726-2739: the variables stack is adjusted   *)
(* by the scope delta of the syntax                                        *)
adjust_stack(stack, delta) ==
    CASE delta > 0 -> stack \o [i \in 1..delta |-> [name |-> "", typ |-> "Normal"]]
      [] delta < 0 /\ Len(stack) <= 0 - delta -> <<>>
      [] delta < 0 /\ Len(stack) > 0 - delta -> truncate(stack, Len(stack) + delta)
      [] OTHER -> stack

(* parse_custom_syntax, lines 2746-2791: the loop over the segments that   *)
(* the parse callback of the syntax returns, from segment i on             *)
custom_segments(c, settings0, key, i, exprs) ==
    Bind(level_up(At(settings0, c)), LAMBDA settings :
    Bind(custom_syntax(key).segments, LAMBDA segments :
    IF i > Len(segments) THEN Ok(Custom(exprs), c)
    ELSE CASE segments[i] = MARKER_IDENT ->
                IF peek(c) \in Identifiers
                THEN custom_segments(next(c), settings0, key, i + 1,
                                     Append(exprs, IndexedVariable(peek(c), 0)))
                ELSE Err(PERR("VariableExpected", "", c.at), next(c))
           [] segments[i] = MARKER_EXPR ->
                Try(parse_expr(c, settings), LAMBDA res :
                    custom_segments(res.c, settings0, key, i + 1,
                                    Append(exprs, res.r)))
           [] segments[i] = MARKER_BLOCK ->
                Try(parse_block(c, settings), LAMBDA res :
                    custom_segments(res.c, settings0, key, i + 1,
                                    Append(exprs, ExprStmt(res.r))))
           [] OTHER ->
                IF peek(c) = segments[i]
                THEN custom_segments(next(c), settings0, key, i + 1, exprs)
                ELSE Err(PERR("MissingToken", segments[i], c.at), next(c))))

(* parse_custom_syntax, lines 2714-2799 *)
parse_custom_syntax(c, settings, key) ==
    custom_segments([c EXCEPT !.stack =
                        adjust_stack(@, custom_syntax(key).scope_delta)],
                    settings, key, 1, <<>>)

(* parse_expr, lines 2802-2837 *)
parse_expr(c0, settings0) ==
    Bind(At(settings0, c0), LAMBDA settings :
    Ensure(settings, c0, LAMBDA c :
    IF peek(c) \in CustomKeys
    THEN parse_custom_syntax(next(c), settings, peek(c))
    ELSE Try(parse_unary(c, level_up(settings)), LAMBDA lhs :
         parse_binary_op(lhs.c, 1, lhs.r, level_up(settings)))))

(* parse_for, lines 2963-3015 *)
parse_for(c0, settings0) ==
    Ensure(At(settings0, c0), next(c0), LAMBDA c :
    IF peek(c) \notin Identifiers
    THEN Err(PERR("VariableExpected", "", c.at), next(c))
    ELSE IF peek2(c) # "in"
    THEN Err(PERR("MissingToken", "in", next(c).at), next(next(c)))
    ELSE IF peek(next(next(c))) \in {"{", EOF}
    THEN Err(PERR("ExprExpected", "a boolean", next(next(c)).at), next(next(c)))
    ELSE Try(parse_expr(next(next(c)), level_up(At(settings0, c0))), LAMBDA expr :
         Try(parse_block(Push(expr.c, peek(c), "Normal"),
                         level_up([At(settings0, c0) EXCEPT !.is_breakable = TRUE])),
             LAMBDA body :
         Ok(For(expr.r, peek(c), body.r),
            [body.c EXCEPT !.stack = truncate(@, Len(expr.c.stack))]))))

(* parse_import, lines 3066-3105 *)
parse_import(c0, settings0) ==
    Ensure(At(settings0, c0), next(c0), LAMBDA c :
    Try(parse_expr(c, level_up(At(settings0, c0))), LAMBDA expr :
    IF peek(expr.c) # "as" THEN Ok(Import(expr.r, NoneV), expr.c)
    ELSE IF peek2(expr.c) \notin Identifiers
    THEN Err(PERR("VariableExpected", "", next(expr.c).at), next(next(expr.c)))
    ELSE Ok(Import(expr.r, peek2(expr.c)),
            [next(next(expr.c)) EXCEPT !.modules = Append(@, peek2(expr.c))])))

(* the entry is counted from the bottom of the stack *)
StackEntry_Outermost(c, index) == c.stack[index]

(* make_assignment_stmt, lines 2253 and 2272: the entry of the symbol      *)
(* stack that a variable's index, counted from the top, refers to          *)
StackEntry(c, index) == c.stack[Len(c.stack) - index + 1]

(* make_assignment_stmt, lines 2238-2296 *)
make_assignment_stmt(fn_name, c, lhs, rhs, pos) ==
    CASE lhs.k = "Var" ->
            IF lhs.index = 0 THEN Ok(Assignment(lhs, fn_name, rhs), c)
            ELSE IF StackEntry(c, lhs.index).typ = "Normal"
            THEN Ok(Assignment(lhs, fn_name, rhs), c)
            ELSE Err(PERR("AssignmentToConstant", lhs.name, NoPos), c)
      [] lhs.k \in {"Index", "Dot"} ->
            IF lhs.lhs.k = "Var"
            THEN IF lhs.lhs.index = 0 THEN Ok(Assignment(lhs, fn_name, rhs), c)
                 ELSE IF StackEntry(c, lhs.lhs.index).typ = "Normal"
                 THEN Ok(Assignment(lhs, fn_name, rhs), c)
                 ELSE Err(PERR("AssignmentToConstant", lhs.lhs.name, NoPos), c)
            ELSE Err(PERR("AssignmentToInvalidLHS", "", NoPos), c)
      [] lhs.k \notin {"Var", "Index", "Dot"} /\ is_constant(lhs) ->
            Err(PERR("AssignmentToConstant", "", NoPos), c)
      [] lhs.k \in {"And", "Or"} ->
            Err(PERR("BadInput", "Possibly a typo of '=='?", pos), c)
      [] OTHER -> Err(PERR("AssignmentToInvalidLHS", "", NoPos), c)

(* parse_op_assignment_stmt, lines 2299-2333 *)
parse_op_assignment_stmt(c0, lhs, settings0) ==
    Bind(At(settings0, c0), LAMBDA settings :
    Ensure(settings, c0, LAMBDA c :
    IF peek(c) \notin {"=", "+="} THEN Ok(StmtExpr(lhs), c)
    ELSE Try(parse_expr(next(c), level_up(settings)), LAMBDA rhs :
             make_assignment_stmt(IF peek(c) = "=" THEN "" ELSE peek(c),
                                  rhs.c, lhs, rhs.r, c.at))))

(* parse_let, lines 3018-3062 *)
parse_let(c0, var_type, settings0) ==
    Ensure(At(settings0, c0), next(c0), LAMBDA c :
    IF peek(c) \notin Identifiers
    THEN Err(PERR("VariableExpected", "", c.at), next(c))
    ELSE Try(IF peek2(c) = "="
             THEN parse_expr(next(next(c)), level_up(At(settings0, c0)))
             ELSE Ok(NoneV, next(c)), LAMBDA init :
         Ok(IF var_type = "Normal" THEN Let(peek(c), init.r)
            ELSE Const(peek(c), init.r),
            Push(init.c, peek(c), var_type))))

(* no name is found to occur twice *)
FirstDuplicate_None(ps) == NoneV

(* lines 3162-3173, 3542-3555 and 3699-3710: the first name that occurs    *)
(* again later in the list, with the position of its next occurrence       *)
FirstDuplicate(ps) ==
    Bind({i \in 1..Len(ps) : \E j \in (i + 1)..Len(ps) : ps[j].name = ps[i].name},
         LAMBDA dups :
    IF dups = {} THEN NoneV
    ELSE Bind(CHOOSE i \in dups : \A i2 \in dups : i <= i2, LAMBDA i :
         ps[CHOOSE j \in (i + 1)..Len(ps) :
                /\ ps[j].name = ps[i].name
                /\ \A j2 \in (i + 1)..(j - 1) : ps[j2].name # ps[i].name]))

Names(ps) == [i \in 1..Len(ps) |-> ps[i].name]

(* parse_export, lines 3122-3160: the loop over the exported names *)
RECURSIVE export_loop(_, _)
export_loop(c, exports) ==
    IF peek(c) \notin Identifiers
    THEN Err(PERR("VariableExpected", "", c.at), next(c))
    ELSE Try(IF peek2(c) # "as" THEN Ok(NoneV, next(c))
             ELSE IF peek(next(next(c))) \in Identifiers
             THEN Ok(peek(next(next(c))), next(next(next(c))))
             ELSE Err(PERR("VariableExpected", "", c.at + 2), next(next(next(c)))),
             LAMBDA rename :
         Bind(Append(exports, [name |-> peek(c), pos |-> c.at, rename |-> rename.r]),
              LAMBDA exports2 :
         CASE peek(rename.c) = "," -> export_loop(next(rename.c), exports2)
           [] peek(rename.c) \in Identifiers ->
                Err(PERR("MissingToken", ",", rename.c.at), rename.c)
           [] OTHER -> Ok(exports2, rename.c)))

(* parse_export, lines 3108-3176 *)
parse_export(c0, settings0) ==
    Ensure(At(settings0, c0), next(c0), LAMBDA c :
    Try(export_loop(c, <<>>), LAMBDA res :
    IF FirstDuplicate(res.r) # NoneV
    THEN Err(PERR("DuplicatedExport", FirstDuplicate(res.r).name,
                  FirstDuplicate(res.r).pos), res.c)
    ELSE Ok(Export([i \in 1..Len(res.r) |->
                       [name |-> res.r[i].name, rename |-> res.r[i].rename]]),
            res.c)))

(* the statements of a block are parsed as if at global level *)
in_block_Global(settings) == settings

(* parse_block, line 3209: a statement of a block is not at global level *)
in_block(settings) == [settings EXCEPT !.is_global = FALSE]

(* parse_block, lines 3207-3247: the loop over the statements *)
block_loop(c, stmts, settings) ==
    IF peek(c) = "}" THEN Ok(stmts, next(c))
    ELSE Try(parse_stmt(c, level_up(settings)), LAMBDA res :
         IF res.r = NoneV THEN block_loop(res.c, stmts, settings)
         ELSE CASE peek(res.c) = "}" -> Ok(Append(stmts, res.r), next(res.c))
                [] peek(res.c) = ";" /\ ~is_self_terminated(res.r) ->
                     block_loop(next(res.c), Append(stmts, res.r), settings)
                [] peek(res.c) # "}" /\ is_self_terminated(res.r) ->
                     block_loop(res.c, Append(stmts, res.r), settings)
                [] OTHER -> Err(PERR("MissingToken", ";", res.c.at), res.c))

(* parse_block, lines 3179-3255 *)
parse_block(c0, settings0) ==
    IF peek(c0) # "{" THEN Err(PERR("MissingToken", "{", c0.at), next(c0))
    ELSE Ensure(At(settings0, c0), next(c0), LAMBDA c :
         Try(block_loop(c, <<>>, in_block(At(settings0, c0))),
             LAMBDA res :
         Ok(Block(res.r),
            [res.c EXCEPT !.stack = truncate(@, Len(c0.stack)),
                          !.modules = truncate(@, Len(c0.modules))])))

(* parse_expr_stmt, lines 3258-3272 *)
parse_expr_stmt(c0, settings0) ==
    Bind(At(settings0, c0), LAMBDA settings :
    Ensure(settings, c0, LAMBDA c :
    Try(parse_expr(c, level_up(settings)), LAMBDA expr :
    parse_op_assignment_stmt(expr.c, expr.r, level_up(settings)))))

(* parse_stmt, lines 3302-3348: the arm of `fn` and `private`, with c1     *)
(* after the `private` that was eaten, if any; the function goes to the    *)
(* library and no statement is returned                                    *)
parse_fn_stmt(c, c1, access) ==
    IF peek(c1) # "fn" THEN Err(PERR("MissingToken", "fn", c1.at), next(c1))
    ELSE Try(parse_fn(FnParseState(next(c1)), FnSettings(c1.at)), LAMBDA res :
             Ok(NoneV, OuterParseState(c, [res.c EXCEPT !.lib =
                    lib_insert(@, [res.r EXCEPT !.access = access])])))

(* parse_stmt, lines 3275-3422; Ok(None) is Ok(NoneV, ..) *)
parse_stmt(c0, settings0) ==
    IF peek(c0) = EOF THEN Ok(Noop, c0)
    ELSE
    Bind(At(settings0, c0), LAMBDA settings :
    Ensure(settings, c0, LAMBDA c :
    CASE peek(c) = ";" -> Ok(Noop, c)
      [] peek(c) = "{" -> parse_block(c, level_up(settings))
      [] peek(c) = "fn" /\ ~settings.is_global ->
            Err(PERR("WrongFnDefinition", "", settings.pos), c)
      [] peek(c) = "fn" /\ settings.is_global -> parse_fn_stmt(c, c, "Public")
      [] peek(c) = "private" -> parse_fn_stmt(c, next(c), "Private")
      [] peek(c) = "for" -> parse_for(c, level_up(settings))
      [] peek(c) = "let" -> parse_let(c, "Normal", level_up(settings))
      [] peek(c) = "const" -> parse_let(c, "Constant", level_up(settings))
      [] peek(c) = "import" -> parse_import(c, level_up(settings))
      [] peek(c) = "export" /\ ~settings.is_global ->
            Err(PERR("WrongExport", "", settings.pos), c)
      [] peek(c) = "export" /\ settings.is_global ->
            parse_export(c, level_up(settings))
      [] OTHER -> parse_expr_stmt(c, level_up(settings))))

(* lines 3514-3539 and 3666-3695: the loop over the parameters, up to the  *)
(* token that closes the list                                              *)
fn_params(c, params, close) ==
    CASE peek(c) = close -> Ok(params, next(c))
      [] peek(c) \in Identifiers ->
            Bind(Append(params, [name |-> peek(c), pos |-> c.at]), LAMBDA params2 :
            Bind(Push(next(c), peek(c), "Normal"), LAMBDA c1 :
            CASE peek(c1) = close -> Ok(params2, next(c1))
              [] peek(c1) = "," -> fn_params(next(c1), params2, close)
              [] OTHER -> Err(PERR("MissingToken", ",", c1.at), next(c1))))
      [] OTHER -> Err(PERR("MissingToken", close, c.at), next(c))

(* parse_fn, lines 3485-3587 *)
parse_fn(c0, settings) ==
    Ensure(settings, c0, LAMBDA c :
    IF peek(c) \notin Identifiers THEN Err(PERR("FnMissingName", "", c.at), next(c))
    ELSE IF peek2(c) # "(" THEN Err(PERR("FnMissingParams", peek(c), c.at + 1), next(c))
    ELSE Try(IF peek(next(next(c))) = ")" THEN Ok(<<>>, next(next(next(c))))
             ELSE fn_params(next(next(c)), <<>>, ")"), LAMBDA params :
    IF FirstDuplicate(params.r) # NoneV
    THEN Err(PERR("FnDuplicatedParam",
                  <<peek(c), FirstDuplicate(params.r).name>>,
                  FirstDuplicate(params.r).pos), params.c)
    ELSE IF peek(params.c) # "{"
    THEN Err(PERR("FnMissingBody", peek(c), params.c.at), params.c)
    ELSE Try(parse_block(params.c, level_up(settings)), LAMBDA body :
         Ok(ScriptFnDef(peek(c), Names(params.r),
                        {n \in body.c.externals :
                            \A i \in 1..Len(params.r) : params.r[i].name # n},
                        body.r),
            body.c))))

KEYWORD_FN_PTR_CURRY == "curry"

(* the function pointer alone, whatever is captured *)
make_curry_from_externals_NoCurry(fn_expr, externals) == fn_expr

(* make_curry_from_externals, lines 3591-3649 *)
make_curry_from_externals(fn_expr, externals) ==
    IF externals = <<>> THEN fn_expr
    ELSE ExprStmt(Block(
             [i \in 1..Len(externals) |-> Share(externals[i])]
             \o << StmtExpr(FnCall(KEYWORD_FN_PTR_CURRY, FALSE,
                       <<fn_expr>> \o [i \in 1..Len(externals) |->
                                          IndexedVariable(externals[i], 0)],
                       NoneV)) >>))

(* lines 3744-3756: the name of an anonymous function is made of the hash  *)
(* of its parameters and body; the hash is taken to be free of collisions  *)
FN_ANONYMOUS == "anon$"

anon_fn_name(params, body) == FN_ANONYMOUS \o ToString(<<params, body>>)

(* parse_anon_fn, lines 3662-3697: the parameters *)
anon_fn_params(c, params, close) ==
    IF peek(c) = "||" THEN Ok(<<>>, next(c))
    ELSE IF peek2(c) = close THEN Ok(<<>>, next(next(c)))
    ELSE fn_params(next(c), params, close)

(* the declared parameters come first and the captured names after them *)
parse_anon_fn_DeclaredFirst(c0, settings) ==
    Ensure(settings, c0, LAMBDA c :
    Try(anon_fn_params(c, <<>>, "|"), LAMBDA params :
    IF FirstDuplicate(params.r) # NoneV
    THEN Err(PERR("FnDuplicatedParam", <<"", FirstDuplicate(params.r).name>>,
                  FirstDuplicate(params.r).pos), params.c)
    ELSE Try(parse_stmt(params.c, level_up(settings)), LAMBDA stmt :
         Bind(IF stmt.r = NoneV THEN Noop ELSE stmt.r, LAMBDA body :
         Bind(InOrder(stmt.c.order, stmt.c.externals), LAMBDA externals :
         Bind(Names(params.r) \o externals, LAMBDA all :
         Ok([expr |-> make_curry_from_externals(
                          FnPointer(anon_fn_name(all, body)), externals),
             func |-> ScriptFnDef(anon_fn_name(all, body), all, {}, body)],
            stmt.c)))))))

(* parse_anon_fn, lines 3653-3779 *)
parse_anon_fn(c0, settings) ==
    Ensure(settings, c0, LAMBDA c :
    Try(anon_fn_params(c, <<>>, "|"), LAMBDA params :
    IF FirstDuplicate(params.r) # NoneV
    THEN Err(PERR("FnDuplicatedParam", <<"", FirstDuplicate(params.r).name>>,
                  FirstDuplicate(params.r).pos), params.c)
    ELSE Try(parse_stmt(params.c, level_up(settings)), LAMBDA stmt :
         Bind(IF stmt.r = NoneV THEN Noop ELSE stmt.r, LAMBDA body :
         Bind(InOrder(stmt.c.order, stmt.c.externals), LAMBDA externals :
         Bind(externals \o Names(params.r), LAMBDA all :
         Ok([expr |-> make_curry_from_externals(
                          FnPointer(anon_fn_name(all, body)), externals),
             func |-> ScriptFnDef(anon_fn_name(all, body), all, {}, body)],
            stmt.c)))))))

(* parse_global_level, lines 3847-3856, and parse_global_expr, lines       *)
(* 3798-3807: the settings at global level                                 *)
GlobalSettings(allow) ==
    [level |-> 0, pos |-> NoPos, is_global |-> TRUE, is_function_scope |-> FALSE,
     is_breakable |-> FALSE, allow_if_expr |-> allow, allow_stmt_expr |-> allow,
     allow_anonymous_fn |-> allow]

(* parse_global_level, lines 3846-3890: the loop over the statements *)
RECURSIVE global_loop(_, _)
global_loop(c, stmts) ==
    IF peek(c) = EOF THEN Ok(stmts, c)
    ELSE Try(parse_stmt(c, GlobalSettings(TRUE)), LAMBDA res :
         IF res.r = NoneV THEN global_loop(res.c, stmts)
         ELSE CASE peek(res.c) = EOF -> Ok(Append(stmts, res.r), res.c)
                [] peek(res.c) = ";" /\ ~is_self_terminated(res.r) ->
                     global_loop(next(res.c), Append(stmts, res.r))
                [] peek(res.c) # EOF /\ is_self_terminated(res.r) ->
                     global_loop(res.c, Append(stmts, res.r))
                [] OTHER -> Err(PERR("MissingToken", ";", res.c.at), res.c))

(* the symbol stack and the import-alias stack of a ParseState *)
ScopeOf(c) == [stack |-> c.stack, modules |-> c.modules]

NoScope == [stack |-> <<>>, modules |-> <<>>]

(* the captures of a ParseState with their positions, and its flag *)
CapturesOf(c) == [externals |-> c.positions, allow_capture |-> c.allow_capture]

NoCaptures == [externals |-> {}, allow_capture |-> TRUE]

(* parse_global_level, lines 3831-3893: the error, or the statements and   *)
(* the functions; scope and captures are what the ParseState, which is     *)
(* dropped on return, holds after the last statement                       *)
parse_global_level(toks, max_expr_depth, max_function_expr_depth, order) ==
    Bind(global_loop(ParseState(toks, max_expr_depth, max_function_expr_depth,
                                order), <<>>), LAMBDA res :
    [err |-> res.err, statements |-> IF res.err = NoneV THEN res.r ELSE <<>>,
     lib |-> IF res.err = NoneV THEN res.c.lib ELSE <<>>,
     scope |-> IF res.err = NoneV THEN ScopeOf(res.c) ELSE NoScope,
     captures |-> IF res.err = NoneV THEN CapturesOf(res.c) ELSE NoCaptures])

(* parse_global_expr, lines 3788-3822, up to the call of the optimizer *)
parse_global_expr(toks, max_expr_depth, max_function_expr_depth, order) ==
    Bind(parse_expr(ParseState(toks, max_expr_depth, max_function_expr_depth,
                               order), GlobalSettings(FALSE)), LAMBDA res :
    IF res.err # NoneV
    THEN [err |-> res.err, statements |-> <<>>, lib |-> <<>>, scope |-> NoScope,
          captures |-> NoCaptures]
    ELSE IF peek(res.c) # EOF
    THEN [err |-> PERR("BadInput", "Unexpected token", res.c.at),
          statements |-> <<>>, lib |-> <<>>, scope |-> NoScope,
          captures |-> NoCaptures]
    ELSE [err |-> NoneV, statements |-> <<StmtExpr(res.r)>>, lib |-> <<>>,
          scope |-> ScopeOf(res.c), captures |-> CapturesOf(res.c)])

(* optimize_into_ast, lines 833-922 *)
optimize_into_ast(eng, sc, stmts, fns, lvl) ==
    Bind(BuildModule(fns, eng, lvl), LAMBDA m :
    [statements |-> optimize(stmts, eng, sc, Signatures(m), lvl), lib |-> m])

(* Module::merge_filtered: the functions of other that pass the filter     *)
(* overwrite those of the same name and number of parameters                *)
RECURSIVE lib_merge_filtered(_, _, _)
lib_merge_filtered(lib, lib2, filter) ==
    IF lib2 = <<>> THEN lib
    ELSE lib_merge_filtered(IF Head(lib2).name \in filter
                            THEN lib_insert(lib, Head(lib2)) ELSE lib,
                            Tail(lib2), filter)

(* merge_filtered with the statements of other put first *)
merge_filtered_OtherFirst(ast1, ast2, filter) ==
    [statements |-> ast2.statements \o ast1.statements,
     lib |-> lib_merge_filtered(ast1.lib, ast2.lib, filter)]

(* AST::merge_filtered, lines 322-345 *)
merge_filtered(ast1, ast2, filter) ==
    [statements |->
        IF ast1.statements # <<>> /\ ast2.statements # <<>>
        THEN ast1.statements \o ast2.statements
        ELSE IF ast1.statements # <<>> THEN ast1.statements
        ELSE IF ast2.statements # <<>> THEN ast2.statements
        ELSE <<>>,
     lib |-> lib_merge_filtered(ast1.lib, ast2.lib, filter)]

(* AST::combine_filtered, lines 397-407: the AST that self becomes *)
combine_filtered(ast1, ast2, filter) ==
    [statements |-> ast1.statements \o ast2.statements,
     lib |-> lib_merge_filtered(ast1.lib, ast2.lib, filter)]

----------------------------------------------------------------------------
(* Bounds of the input space *)
MaxBlockLen == 2

MaxTop == 2

PassCap == 8

(* Expressions the inputs are built from *)
CallF == FnCall("f", FALSE, <<>>, NoneV)

CallG == FnCall("g", FALSE, <<>>, NoneV)

VarX == Variable("x")

VarN == Variable("N")

NPlus1 == FnCall("+", FALSE, <<VarN, IntegerConstant(1)>>, NoneV)

Some(b) == [k |-> "Some", b |-> b]

(* The two engines: the standard package alone, and with a registered      *)
(* override of + for two integers.  f is not registered, g returns 7,      *)
(* h raises an error, p returns a function pointer, print and debug return  *)
(* the text they would show; eval, is_def_fn and is_def_var are not         *)
(* registered functions.                                                    *)
FnNames == {"+", "/", "==", "!=", "f", "g", "h", "p", "print", "type_of",
            "debug", "eval", "is_def_fn", "is_def_var", "curry",
            "a", "b", "c", "x", "y"}

StdNative ==
    [n \in FnNames |->
        CASE n \in {"+", "/", "==", "!="} -> [kind |-> "Builtin"]
          [] n = "g" -> [kind |-> "Value", val |-> DInt(7)]
          [] n = "p" -> [kind |-> "Value", val |-> DFnPtr("f")]
          [] n = "h" -> [kind |-> "Error"]
          [] n \in {"print", "debug"} -> [kind |-> "Value", val |-> DStr(<<"1", "0">>)]
          [] OTHER -> [kind |-> "NotFound"]]

StdEngine == [overrides |-> {}, native |-> StdNative]

OverrideEngine ==
    [overrides |-> {[name |-> "+", types |-> <<"Int", "Int">>]},
     native |-> [StdNative EXCEPT !["+"] = [kind |-> "Value", val |-> DInt(0)]]]

Engines == {StdEngine, OverrideEngine}

Levels == {"None", "Simple", "Full"}

(* The scope: the constant N = 10 and an ordinary variable v *)
TheScope ==
    << [name |-> "N", typ |-> "Constant", expr |-> NoneV, value |-> DInt(10)],
       [name |-> "v", typ |-> "Normal", expr |-> NoneV, value |-> DInt(3)] >>

(* Statements a generated block is made of *)
BlockItems ==
    { StmtExpr(CallF), StmtExpr(VarX),
      Let("y", NoneV), Let("y", CallF), Let("y", VarX),
      Break, ReturnWithVal("Return", VarN), Const("C", IntegerConstant(1)) }

RECURSIVE SeqsUpTo(_, _)
SeqsUpTo(S, n) ==
    IF n = 0 THEN {<<>>}
    ELSE LET shorter == SeqsUpTo(S, n - 1)
         IN  shorter \cup {Append(q, x) : q \in {r \in shorter : Len(r) = n - 1}, x \in S}

Blocks == {Block(ss) : ss \in SeqsUpTo(BlockItems, MaxBlockLen)}

SideBlock == Block(<<StmtExpr(CallG)>>)

Guards == {VarX, True, False}

(* Every statement form that owns a block, around a generated block *)
Wrapped(b) ==
    {b, Loop(b), For(VarX, "i", b), TryCatch(b, "err", SideBlock),
     StmtExpr(ExprStmt(b)), IfThenElse(False, SideBlock, b)}
    \cup {IfThenElse(c, b, NoneV) : c \in Guards}
    \cup {IfThenElse(c, b, SideBlock) : c \in Guards}
    \cup {While(c, b) : c \in Guards}

(* Statements with deeper nesting and with the expression rewrites *)
Nested ==
    { While(True, Block(<<IfThenElse(VarX, Block(<<Break>>), NoneV), StmtExpr(CallF)>>)),
      Block(<<Block(<<Let("y", NoneV)>>), StmtExpr(CallF)>>),
      Block(<<Const("C", IntegerConstant(1)), StmtExpr(CallF), StmtExpr(Variable("C"))>>),
      Block(<<Const("C", NoneV), Assignment(VarX, "=", Variable("C"))>>),
      Block(<<Const("C", CallF), StmtExpr(CallF), StmtExpr(Variable("C"))>>),
      Block(<<StmtExpr(CallF), Import(StringConstant(<<"m">>), "m")>>),
      Block(<<StmtExpr(CallF), Import(CallF, "m")>>),
      Block(<<Let("y", NoneV), StmtExpr(CallF), Let("z", CallF), Let("w", NoneV)>>),
      Block(<<StmtExpr(CallF), ReturnWithVal("Exception", NoneV), StmtExpr(CallG),
              StmtExpr(CallF)>>),
      Loop(Block(<<StmtExpr(CallF), Break, StmtExpr(CallG)>>)),
      Const("K", NPlus1), Const("K", Unit), Const("K", NoneV),
      Const("K", ExprStmt(Block(<<ReturnWithVal("Return", NoneV), StmtExpr(CallF)>>))),
      Block(<<Const("K", ExprStmt(Block(<<Break, StmtExpr(CallF)>>))), StmtExpr(CallF)>>),
      Noop, Continue, Export(<<"x">>), Share("x"), Let("y", NPlus1),
      ReturnWithVal("Return", NoneV), ReturnWithVal("Return", NPlus1),
      Assignment(VarX, "+=", NPlus1),
      IfThenElse(CallF, Noop, NoneV),
      IfThenElse(VarX, Noop, NoneV),
      While(CallF, Block(<<Break>>)),
      TryCatch(Block(<<StmtExpr(VarX)>>), "err", SideBlock),
      StmtExpr(ExprStmt(StmtExpr(CallF))),
      StmtExpr(ExprStmt(Noop)) }

(* Expression statements exercising the call arms and the other rewrites *)
CallExprs ==
    { NPlus1,
      FnCall("+", FALSE, <<IntegerConstant(10), IntegerConstant(1)>>, NoneV),
      FnCall("+", FALSE, <<IntegerConstant(1), True>>, NoneV),
      FnCall("+", TRUE, <<IntegerConstant(1), IntegerConstant(1)>>, NoneV),
      FnCall("/", FALSE, <<IntegerConstant(1), IntegerConstant(0)>>, NoneV),
      FnCall("==", FALSE, <<IntegerConstant(1), Unit>>, Some(FALSE)),
      FnCall("!=", FALSE, <<VarN, IntegerConstant(1)>>, Some(TRUE)),
      FnCall("h", FALSE, <<VarN>>, NoneV),
      FnCall("h", FALSE, <<VarN>>, Some(FALSE)),
      FnCall("p", FALSE, <<>>, NoneV),
      FnCall("f", FALSE, <<NPlus1, VarX>>, NoneV),
      FnCall("print", FALSE, <<VarN>>, NoneV),
      FnCall("print", FALSE, <<CallG>>, NoneV),
      FnCall("debug", FALSE, <<IntegerConstant(1)>>, NoneV),
      FnCall("eval", FALSE, <<StringConstant(<<"f">>)>>, NoneV),
      FnCall("is_def_fn", FALSE, <<StringConstant(<<"g">>), IntegerConstant(0)>>, NoneV),
      FnCall("is_def_var", FALSE, <<StringConstant(<<"N">>)>>, Some(FALSE)),
      FnCall("type_of", FALSE, <<VarN>>, NoneV),
      CallG, CallF,
      ExprExpr(VarN),
      And(True, VarN), And(False, CallF), And(CallF, True), And(VarX, False),
      Or(False, VarN), Or(True, CallF), Or(CallF, False), Or(VarX, True),
      And(VarX, Or(VarN, False)),
      Index(Array(<<VarX, VarN>>), IntegerConstant(1)),
      Index(Array(<<CallF, VarN>>), IntegerConstant(1)),
      Index(Array(<<VarN>>), IntegerConstant(1)),
      Index(Array(<<VarN>>), VarN),
      Index(StringConstant(<<"a", "b">>), IntegerConstant(1)),
      Index(Map(<<[key |-> <<"a">>, val |-> VarN]>>), StringConstant(<<"a">>)),
      Dot(Map(<<[key |-> <<"a">>, val |-> VarN]>>), Property(<<"b">>)),
      Dot(VarX, Property(<<"a">>)),
      Map(<<[key |-> <<"a">>, val |-> VarN]>>),
      In(StringConstant(<<"b">>), StringConstant(<<"a", "b">>)),
      In(CharConstant("c"), StringConstant(<<"a", "b">>)),
      In(StringConstant(<<"a">>), Map(<<[key |-> <<"a">>, val |-> CallF]>>)),
      In(CharConstant("b"), Map(<<[key |-> <<"a">>, val |-> CallF]>>)),
      In(VarN, VarX),
      FnPointer("f"), QVariable("N"),
      Custom(<<VarN, CallF>>) }

(* A block declaring the literal constant C and passing e to f *)
ConstBlock(e) ==
    Block(<<Const("C", IntegerConstant(1)), StmtExpr(FnCall("f", FALSE, <<e>>, NoneV))>>)

VarC == Variable("C")

(* References to C: bare, and as the operand that a rewrite returns *)
ConstRefs ==
    { VarC, And(True, VarC), Or(False, VarC), And(VarC, True), Or(VarC, False),
      Index(Array(<<VarC>>), IntegerConstant(0)),
      Dot(Map(<<[key |-> <<"a">>, val |-> VarC]>>), Property(<<"a">>)),
      ExprStmt(StmtExpr(VarC)) }

(* The block where its result is preserved and where it is not *)
ConstBlocks ==
    UNION {{ConstBlock(e), Loop(ConstBlock(e)), IfThenElse(VarX, ConstBlock(e), NoneV)}
           : e \in ConstRefs}

FOfN == StmtExpr(FnCall("f", FALSE, <<VarN>>, NoneV))

(* Programs that bind the name of the scope's constant N again *)
Shadowing ==
    { <<Let("N", CallF), FOfN>>,
      <<Let("N", NoneV), Assignment(VarN, "=", CallF), FOfN>>,
      <<Block(<<Let("N", CallF), FOfN>>)>>,
      <<Block(<<Let("N", CallF), FOfN>>), FOfN>>,
      <<For(VarX, "N", Block(<<FOfN, StmtExpr(CallF)>>))>>,
      <<For(VarN, "N", FOfN), FOfN>>,
      <<TryCatch(Block(<<StmtExpr(CallF)>>), "N", Block(<<FOfN, StmtExpr(CallF)>>))>>,
      <<TryCatch(FOfN, "N", FOfN)>>,
      <<FOfN, Let("N", VarN)>> }

FOfC == StmtExpr(FnCall("f", FALSE, <<VarC>>, NoneV))

FOf1 == StmtExpr(FnCall("f", FALSE, <<IntegerConstant(1)>>, NoneV))

DeclaresC == Block(<<Const("C", IntegerConstant(1)), StmtExpr(CallF)>>)

RefersToC == Block(<<FOfC, StmtExpr(CallF)>>)

(* Programs that refer to C outside the block that declares it, or before  *)
(* its declaration at the top level                                        *)
LeakPrograms ==
    { <<DeclaresC, FOfC>>,
      <<Block(<<DeclaresC, FOfC, StmtExpr(CallF)>>)>>,
      <<DeclaresC, RefersToC>>,
      <<Loop(DeclaresC), FOfC>>,
      <<IfThenElse(VarX, DeclaresC, RefersToC)>>,
      <<StmtExpr(ExprStmt(DeclaresC)), FOfC>>,
      <<FOfC, Const("C", IntegerConstant(1)), FOfN>> }

(* Programs that refer to C in a block nested in the one that declares it  *)
SeePrograms ==
    { <<Block(<<Const("C", IntegerConstant(1)), RefersToC>>)>>,
      <<Const("C", IntegerConstant(1)), RefersToC>>,
      <<Block(<<Const("C", IntegerConstant(1)), Loop(RefersToC)>>)>>,
      <<Block(<<Const("C", IntegerConstant(1)),
                Block(<<RefersToC, StmtExpr(CallF)>>)>>)>>,
      <<Block(<<Const("C", IntegerConstant(1)), DeclaresC, FOfC>>)>> }

(* A statement among at most MaxTop - 1 statements of context *)
Context == SeqsUpTo({StmtExpr(CallF), StmtExpr(VarX)}, MaxTop - 1)

InContext(s) ==
    {pre \o <<s>> \o post : pre \in Context, post \in Context}

TopLevel(S) ==
    UNION {{q \in InContext(s) : Len(q) <= MaxTop} : s \in S}

(* A statement alone, before an impure statement, and after one *)
Placed(S) ==
    UNION {{<<s>>, <<s, StmtExpr(CallF)>>, <<StmtExpr(CallF), s>>} : s \in S}

BlockInputs ==
    Placed(UNION {Wrapped(b) : b \in Blocks}) \cup TopLevel(Nested) \cup Placed(ConstBlocks)
    \cup Shadowing \cup LeakPrograms \cup SeePrograms

CallInputs == TopLevel({StmtExpr(e) : e \in CallExprs})

(* Libraries: none, or the script function g with one of these bodies *)
FnBodies ==
    { Block(<<ReturnWithVal("Return", NPlus1)>>),
      Block(<<ReturnWithVal("Return", NoneV)>>),
      Block(<<ReturnWithVal("Exception", VarX)>>),
      Block(<<>>),
      Block(<<StmtExpr(CallF), StmtExpr(Variable("a"))>>) }

Libraries == {<<>>} \cup {<<ScriptFnDef("g", <<>>, {}, b)>> : b \in FnBodies}

----------------------------------------------------------------------------
(* An engine is there and nothing has been handed to the optimizer yet *)
Init ==
    /\ statements = <<>>
    /\ functions = <<>>
    /\ engine = StdEngine
    /\ level = "None"
    /\ scope = <<>>
    /\ module = <<>>
    /\ result = <<>>
    /\ state = NewState(StdEngine, {}, "None")
    /\ passes = 0
    /\ pc = "idle"
    /\ round = 1
    /\ first = [statements |-> <<>>, lib |-> <<>>]
    /\ compile = NoneV
    /\ parsed = NoneV
    /\ ast = NoneV
    /\ other = NoneV
    /\ merged = NoneV
    /\ ppc = "idle"

(* optimize_into_ast is called: lines 833-839, its arguments *)
Call ==
    /\ pc = "idle"
    /\ \/ /\ statements' \in BlockInputs
          /\ functions' = <<>>
          /\ engine' = StdEngine
       \/ /\ statements' \in CallInputs
          /\ functions' \in Libraries
          /\ engine' \in Engines
    /\ level' \in Levels
    /\ scope' = TheScope
    /\ pc' = "fns"
    /\ UNCHANGED <<module, result, state, passes, round, first>>
    /\ UNCHANGED pvars

(* optimize_into_ast, lines 846-907: builds the library *)
BuildLib ==
    /\ pc = "fns"
    /\ module' = BuildModule(functions, engine, level)
    /\ pc' = "start"
    /\ UNCHANGED <<statements, functions, scope, engine, level, result, state,
                   passes, round, first>>
    /\ UNCHANGED pvars

(* Start without the early return for level None *)
Start_NoLevelCheck ==
    /\ pc = "start"
    /\ result' = statements
    /\ passes' = 0
    /\ state' = InitialState(engine, scope, Signatures(module), level)
    /\ pc' = "loop"
    /\ UNCHANGED <<statements, functions, scope, engine, level, module, round, first>>
    /\ UNCHANGED pvars

(* optimize_into_ast, lines 912-918, and optimize, lines 731-760 *)
Start ==
    /\ pc = "start"
    /\ result' = statements
    /\ passes' = 0
    /\ IF level = "None"
       THEN pc' = "done" /\ UNCHANGED state
       ELSE /\ state' = InitialState(engine, scope, Signatures(module), level)
            /\ pc' = "loop"
    /\ UNCHANGED <<statements, functions, scope, engine, level, module, round, first>>
    /\ UNCHANGED pvars

(* optimize, lines 763-814: one iteration of the loop and its exit test *)
DoPass ==
    /\ pc = "loop"
    /\ \E p \in {Pass(result, state, Len(ScopeConstants(scope)))} :
           /\ result' = p.r
           /\ state' = p.st
           /\ pc' = IF is_dirty(p.st) THEN "loop" ELSE "cleanup"
    /\ passes' = IF passes < PassCap THEN passes + 1 ELSE passes
    /\ UNCHANGED <<statements, functions, scope, engine, level, module, round, first>>
    /\ UNCHANGED pvars

(* optimize, lines 816-829 *)
Finish ==
    /\ pc = "cleanup"
    /\ result' = Cleanup(result)
    /\ pc' = "done"
    /\ UNCHANGED <<statements, functions, scope, engine, level, module, state,
                   passes, round, first>>
    /\ UNCHANGED pvars

(* The caller hands the returned AST to the optimizer once more *)
Again ==
    /\ pc = "done"
    /\ round = 1
    /\ first' = [statements |-> result, lib |-> module]
    /\ statements' = result
    /\ functions' = module
    /\ round' = 2
    /\ pc' = "fns"
    /\ UNCHANGED <<scope, engine, level, module, result, state, passes>>
    /\ UNCHANGED pvars

Next == Call \/ BuildLib \/ Start \/ DoPass \/ Finish \/ Again

Spec == Init /\ [][Next]_vars

----------------------------------------------------------------------------
(* Bounds of the scripts *)
MaxParens == 2

MaxBraces == 2

MaxParams == 3

MaxDepth == 6

(* toks inside n pairs of parentheses, and inside n statement blocks *)
RECURSIVE Parens(_, _)
Parens(n, toks) == IF n = 0 THEN toks ELSE <<"(">> \o Parens(n - 1, toks) \o <<")">>

RECURSIVE Braces(_, _)
Braces(n, toks) == IF n = 0 THEN toks ELSE <<"{">> \o Braces(n - 1, toks) \o <<"}">>

(* the names of a parameter list with the commas between them *)
RECURSIVE Commas(_)
Commas(ps) ==
    IF Len(ps) <= 1 THEN ps ELSE <<Head(ps), ",">> \o Commas(Tail(ps))

ParamLists == SeqsUpTo({"a", "b"}, MaxParams)

(* Expressions with a module-qualified name, alone and on the right of a dot *)
QualifiedInputs ==
    { <<"a", "::", "b">>, <<"a", "::", "b", "::", "c">>, <<"a", "::">>,
      <<"a", "::", "1">>, <<"a", "::", "f", "(", ")">>, <<"a", "::", "b", "[", "1", "]">>,
      <<"(", "a", ")", "::", "b">>, <<"1", "::", "b">>,
      <<"x", ".", "a", "::", "b">>, <<"x", ".", "a", "::", "b", "::", "c">>,
      <<"x", ".", "a", "::", "b", "[", "1", "]">>,
      <<"x", ".", "a", "::", "b", "[", "1", "]", "[", "1", "]">>,
      <<"x", ".", "a", "::", "b", ".", "c">>,
      <<"x", ".", "a", "::", "b", "[", "1", "]", ".", "c">>,
      <<"x", ".", "a", "::", "f", "(", ")">>,
      <<"x", ".", "y", ".", "a", "::", "b">>,
      <<"x", ".", "y", ".", "a", "::", "b", "[", "1", "]">>,
      <<"x", "[", "1", "]", ".", "a", "::", "b">>,
      <<"x", "[", "1", "]", ".", "a", "::", "b", "[", "1", "]">>,
      <<"x", ".", "(", "a", "::", "b", ")">>,
      <<"x", ".", "a", "[", "1", "]", ".", "b">>,
      <<"x", ".", "a", ".", "b", "[", "1", "]">>,
      <<"x", ".", "f", "(", ")", ".", "a">>,
      <<"x", ".", "a", "+", "b">>, <<"f", "(", ")", ".", "a", "[", "1", "]">> }

(* Three operands with each pair of binary operators, and longer chains *)
BinaryOperators == {"||", "|", "&&", "+", "*", "."}

PrecedenceInputs ==
    {<<"a", op1, "b", op2, "c">> : op1 \in BinaryOperators, op2 \in BinaryOperators}
    \cup { <<"a", "+", "b", "*", "c", "+", "x">>, <<"a", "*", "b", "+", "c", "*", "x">>,
           <<"a", "+", "b", ".", "c", ".", "x">>, <<"a", "+", "b", "+">>,
           <<"a", "*", "(", "b", "+", "c", ")">>, <<"a", "&&", "b">>, <<"a", "*", "1">> }

(* Expressions with properties, method calls and module qualifiers next   *)
(* to variables of the same names                                         *)
CaptureInputs ==
    { <<"x", ".", "a">>, <<"x", ".", "a", "+", "a">>, <<"x", ".", "a", "+", "b">>,
      <<"x", ".", "a", ".", "b", "+", "b", "+", "a">>,
      <<"x", ".", "f", "(", "y", ")", "+", "f">>,
      <<"x", ".", "f", "(", "y", ".", "a", ",", "a", ")">>,
      <<"x", ".", "a", "[", "b", "]">>,
      <<"x", ".", "a", "[", "b", ".", "c", "]", "+", "c">>,
      <<"x", "+", "x">>, <<"y", ".", "x", "+", "x">>, <<"x", ".", "x">>,
      <<"a", "::", "b", "+", "b">>, <<"a", "::", "b", "+", "a">>,
      <<"x", ".", "(", "a", ")">>, <<"f", "(", "x", ")", ".", "a", "+", "a">>,
      <<"x", ".", "a", "::", "f", "(", "b", ")", "+", "a">>,
      <<"x", ".", "a", "::", "f", "(", "b", ")", "+", "f">>,
      <<"y", "+", "x", ".", "y", "+", "y">>, <<"1", "+", "x", ".", "a", "+", "x">> }

(* Expressions given to parse_global_expr *)
ExprInputs ==
    {Parens(n, <<"1">>) : n \in 0..MaxParens}
    \cup {Parens(n, <<"x">>) : n \in 0..MaxParens}
    \cup { <<"1", "+", "1">>, <<"x", "+", "1", "+", "y">>, <<"x", "||", "y">>,
           <<"(", "1", "+", "1", ")">>, <<"(", ")">>, <<"(", "1">>, <<"1", ")">>,
           <<"f", "(", ")">>, <<"f", "(", "1", ",", "x", ")">>, <<"f", "(", "1">>,
           <<"f", "(", "1", "x", ")">>, <<"x", "[", "1", "]">>,
           <<"x", "[", "1", "]", "[", "1", "]">>, <<"x", "[", "(", ")", "]">>,
           <<"x", "[", "1">>, <<"x", "[", "f", "(", ")", "]">>,
           <<"x", ".", "a">>, <<"x", ".", "a", ".", "b">>, <<"x", ".", "1">>,
           <<"x", ".", "f", "(", ")">>, <<"x", "[", "1", "]", ".", "a">>,
           <<"x", ".", "a", "[", "1", "]">>, <<"|", "a", "|", "a">>,
           <<"{", "1", "}">>, <<>>, <<"+">>, <<"x", "=", "1">> }
    \cup QualifiedInputs \cup PrecedenceInputs \cup CaptureInputs

QualifiedScripts == {e \o <<";">> : e \in QualifiedInputs}

(* Scripts with nested parentheses and blocks *)
NestingScripts ==
    {Parens(n, <<"1">>) \o end : n \in 0..MaxParens, end \in {<<>>, <<";">>}}
    \cup {Braces(n, <<"1">>) : n \in 1..MaxBraces}
    \cup { <<"f", "(", "(", "1", ")", ")", ";">>, <<"1", "+", "1", "+", "1">>,
           <<"let", "x", "=", "(", "1", ")", ";">>, <<"1", "1">>, <<";">>,
           <<"let", "x", "=", "{", "1", "}", ";", "x">>,
           <<"fn", "f", "(", ")", "{", "(", "1", ")", "}">>,
           <<"{", "1", ";", "{", "}", "1", "}", "1">>, <<"{", "1">>,
           <<"let">>, <<"let", "x", "1">> }

(* Scripts that define a function with each parameter list *)
FnScripts ==
    {<<"fn", "f", "(">> \o Commas(ps) \o <<")", "{", "}">> : ps \in ParamLists}
    \cup {<<"let", "g", "=", "|">> \o Commas(ps) \o <<"|", "1", ";">> : ps \in ParamLists}
    \cup {<<"f", "(", "|">> \o Commas(ps) \o <<"|", "a", ")">> : ps \in ParamLists}
    \cup { <<"fn", "f", "(", "a", "a", ")", "{", "}">>,
           <<"fn", "f", "(", "a", ",", "a">>,
           <<"fn", "f", "(", "a", ",", ")", "{", "}">>,
           <<"fn", "(", "a", ")", "{", "}">>, <<"fn", "f", "{", "}">>,
           <<"fn", "f", "(", "a", ",", "a", ")">>,
           <<"fn", "f", "(", "a", ")">>,
           <<"fn", "f", "(", "a", ")", "{", "a", "}", "fn", "f", "(", "b", ")",
             "{", "b", "}", "f", "(", "1", ")">>,
           <<"fn", "f", "(", "a", ")", "{", "a", "+", "x", "}">>,
           <<"fn", "f", "(", ")", "{", "fn", "g", "(", ")", "{", "}", "}">>,
           <<"{", "fn", "f", "(", ")", "{", "}", "}">>,
           <<"let", "g", "=", "|", "a", "a", "|", "1", ";">>,
           <<"let", "g", "=", "|", "a", ",", "1", "|", "1", ";">>,
           <<"let", "g", "=", "||", "1", ";">> }

(* Scripts with a function definition at global level and inside blocks   *)
(* and function bodies, with and without `private`                         *)
FnDefinition == <<"fn", "f", "(", ")", "{", "}">>

NestedFnScripts ==
    {Braces(n, pre \o FnDefinition) : n \in 0..MaxBraces, pre \in {<<>>, <<"private">>}}
    \cup {<<"fn", "g", "(", ")">> \o Braces(n, pre \o FnDefinition) :
              n \in 1..MaxBraces, pre \in {<<>>, <<"private">>}}
    \cup { <<"private", "f">>, <<"private">>, <<"{", "private", "f", "}">>,
           <<"let", "g", "=", "||", "{", "private", "fn", "f", "(", ")", "{", "}", "}", ";">>,
           <<"let", "g", "=", "||", "{", "fn", "f", "(", ")", "{", "}", "}", ";">>,
           <<"{", "private", "fn", "f", "(", "a", ",", "a", ")", "{", "}", "}">>,
           <<"{", "1", ";", "private", "fn", "f", "(", ")", "{", "}", "1", "}">> }

(* Scripts with anonymous functions that refer to outer variables *)
ClosureScripts ==
    { <<"let", "x", "=", "1", ";", "let", "g", "=", "|", "a", "|", "a", "+", "x", ";">>,
      <<"let", "g", "=", "||", "x", ";">>,
      <<"let", "g", "=", "|", "x", "|", "x", ";">>,
      <<"let", "g", "=", "|", "a", "|", "{", "let", "b", "=", "1", ";",
        "a", "+", "b", "+", "x", "}", ";">>,
      <<"let", "g", "=", "|", "a", "|", "{", "let", "x", "=", "1", ";", "x", "}", ";">>,
      <<"let", "g", "=", "|", "a", "|", "{", "{", "let", "x", ";", "}", "x", "}", ";">>,
      <<"let", "g", "=", "||", "||", "x", ";">>,
      <<"let", "g", "=", "|", "a", "|", "a", ".", "x", ";">>,
      <<"let", "g", "=", "|", "a", "|", "x", ".", "a", ";">>,
      <<"let", "g", "=", "|", "a", "|", "y", "+", "x", ";">>,
      <<"let", "g", "=", "|", "a", "|", "x", "+", "y", "+", "x", ";">>,
      <<"let", "g", "=", "|", "a", "|", "x", "(", "a", ")", ";">>,
      <<"let", "g", "=", "|", "a", "|", "x", "=", "a", ";">>,
      <<"f", "(", "||", "x", ",", "||", "y", ")">>,
      <<"let", "y", ";", "{", "let", "x", ";", "f", "(", "||", "x", "+", "y", ")", "}">>,
      <<"fn", "f", "(", "a", ")", "{", "||", "a", "+", "x", "}">>,
      <<"let", "g", "=", "||", "x", ";", "let", "c", "=", "||", "x", ";">> }

(* Scripts that end with a block or a `for` loop, after declarations that  *)
(* leave the given symbol stack and import aliases                         *)
Normal(name) == [name |-> name, typ |-> "Normal"]

ScopeContexts ==
    { [pre |-> <<>>, stack |-> <<>>, modules |-> <<>>],
      [pre |-> <<"let", "x", ";">>, stack |-> <<Normal("x")>>, modules |-> <<>>],
      [pre |-> <<"let", "x", ";", "const", "c", "=", "1", ";">>,
       stack |-> <<Normal("x"), [name |-> "c", typ |-> "Constant"]>>,
       modules |-> <<>>],
      [pre |-> <<"import", "1", "as", "a", ";">>, stack |-> <<>>, modules |-> <<"a">>],
      [pre |-> <<"let", "x", ";", "import", "1", "as", "a", ";", "import", "1", ";">>,
       stack |-> <<Normal("x")>>, modules |-> <<"a">>] }

PlainBlocks ==
    { <<"{", "}">>, <<"{", "let", "y", ";", "}">>,
      <<"{", "let", "y", ";", "{", "let", "x", ";", "}", "y", "}">>,
      <<"{", "import", "1", "as", "b", ";", "}">>, <<"{", "import", "1", ";", "}">>,
      <<"{", "const", "c", "=", "1", ";", "import", "1", "as", "b", ";",
        "let", "y", ";", "{", "import", "1", "as", "c", "}", "}">>,
      <<"for", "y", "in", "x", "{", "let", "a", ";", "}">>,
      <<"for", "y", "in", "x", "{", "import", "1", "as", "b", ";", "}">>,
      <<"for", "y", "in", "x", "{", "for", "a", "in", "y", "{", "let", "b", ";",
        "}", "}">>,
      <<"{", "for", "y", "in", "x", "{", "}", "let", "b", ";", "}">> }

GrowingBlocks ==
    { <<"{", "grow", ";", "}">>, <<"{", "grow", ";", "let", "y", ";", "grow", "}">>,
      <<"{", "each", "y", "in", "x", ";", "}">>,
      <<"{", "within", "{", "let", "y", ";", "grow", "}", "}">>,
      <<"for", "y", "in", "x", "{", "grow", ";", "}">>,
      <<"{", "let", "y", ";", "drop", ";", "}">>,
      <<"{", "grow", ";", "let", "y", ";", "drop2", ";", "}">>,
      <<"for", "y", "in", "x", "{", "drop", ";", "}">> }

ShrinkingBlocks ==
    { <<"{", "drop", ";", "}">>, <<"{", "drop2", ";", "}">>,
      <<"{", "let", "y", ";", "drop2", ";", "}">>,
      <<"{", "drop", ";", "grow", ";", "}">>,
      <<"{", "within", "{", "drop", "}", "}">>,
      <<"for", "y", "in", "x", "{", "drop2", ";", "}">>,
      <<"{", "drop", ";", "let", "y", ";", "}">> }

ScopeScripts ==
    {ctx.pre \o blk : ctx \in ScopeContexts,
                     blk \in PlainBlocks \cup GrowingBlocks \cup ShrinkingBlocks}
    \cup { <<"for", "y", "x", "{", "}">>, <<"for", "1", "in", "x", "{", "}">>,
           <<"for", "y", "in", "{", "}">>, <<"for", "y", "in", "x">>,
           <<"import", "1", "as", "1">>, <<"import">>, <<"each", "1">>,
           <<"each", "y", "x">>, <<"within", "1">>, <<"grow", ";", "x">>,
           <<"let", "x", ";", "{", "let", "y", ";">> }

(* The expressions of CaptureInputs after a declaration and as the body of *)
(* an anonymous function                                                   *)
CaptureScripts ==
    {pre \o e \o <<";">> :
        pre \in { <<>>, <<"let", "a", ";">>, <<"let", "x", ";">>,
                  <<"let", "g", "=", "||">>, <<"let", "g", "=", "|", "a", "|">> },
        e \in CaptureInputs}

(* Scripts with an export statement *)
ExportScripts ==
    {Braces(n, <<"export", "x", ";">>) : n \in 0..MaxBraces}
    \cup {<<"let", "x", ";">> \o Braces(n, <<"export", "x">>) : n \in 0..MaxBraces}
    \cup { <<"export", "x", "as", "y", ";">>, <<"export", "x", ",", "y", "as", "a">>,
           <<"export", "x", ",", "x">>, <<"export", "x", "y">>, <<"export", "1">>,
           <<"export", "x", "as", "1">>, <<"export">>,
           <<"fn", "f", "(", ")", "{", "export", "x", ";", "}">>,
           <<"fn", "f", "(", ")", "{", "{", "export", "x", ";", "}", "}">>,
           <<"let", "g", "=", "||", "export", "x", ";">>,
           <<"let", "g", "=", "||", "{", "export", "x", ";", "}", ";">>,
           <<"let", "y", "=", "{", "export", "x", ";", "}", ";">>,
           <<"f", "(", "{", "export", "x", "}", ")">>,
           <<"{", "1", ";", "export", "x", ";", "}">> }

(* Scripts with an assignment: what is declared around it, its target and  *)
(* its operator                                                            *)
AssignContexts ==
    { [pre |-> <<>>, post |-> <<>>],
      [pre |-> <<"let", "x", ";">>, post |-> <<>>],
      [pre |-> <<"const", "x", "=", "1", ";">>, post |-> <<>>],
      [pre |-> <<"const", "x", "=", "1", ";", "let", "x", ";">>, post |-> <<>>],
      [pre |-> <<"let", "x", ";", "const", "x", "=", "1", ";">>, post |-> <<>>],
      [pre |-> <<"const", "x", "=", "1", ";", "{">>, post |-> <<"}">>],
      [pre |-> <<"const", "x", "=", "1", ";", "{", "let", "x", ";">>, post |-> <<"}">>],
      [pre |-> <<"const", "x", "=", "1", ";", "{", "let", "x", ";", "}">>, post |-> <<>>],
      [pre |-> <<"let", "x", ";", "{", "const", "x", "=", "1", ";", "}">>, post |-> <<>>],
      [pre |-> <<"const", "x", "=", "1", ";", "fn", "f", "(", ")", "{">>, post |-> <<"}">>],
      [pre |-> <<"const", "x", "=", "1", ";", "fn", "f", "(", "x", ")", "{">>,
       post |-> <<"}">>],
      [pre |-> <<"const", "x", "=", "1", ";", "let", "g", "=", "||">>, post |-> <<>>],
      [pre |-> <<"const", "y", "=", "1", ";", "let", "x", ";">>, post |-> <<>>] }

AssignTargets ==
    { <<"x">>, <<"y">>, <<"x", "[", "1", "]">>, <<"x", "[", "1", "]", "[", "1", "]">>,
      <<"x", ".", "a">>, <<"x", ".", "a", ".", "b">>, <<"x", "[", "1", "]", ".", "a">>,
      <<"x", ".", "f", "(", ")">>, <<"(", "x", ")">>, <<"1">>, <<"(", ")">>,
      <<"(", "1", ")">>, <<"f", "(", "1", ")">>, <<"f", "(", "1", ")", ".", "a">>,
      <<"f", "(", ")", "[", "1", "]">>, <<"x", "||", "y">>, <<"x", "+", "1">>,
      <<"1", "+", "1">>, <<"||", "x">> }

AssignOps == {"=", "+="}

AssignScripts ==
    {ctx.pre \o target \o <<op, "1", ";">> \o ctx.post :
        ctx \in AssignContexts, target \in AssignTargets, op \in AssignOps}

Scripts ==
    NestingScripts \cup FnScripts \cup ClosureScripts \cup ExportScripts
    \cup AssignScripts \cup NestedFnScripts \cup QualifiedScripts \cup ScopeScripts
    \cup CaptureScripts

(* The engine's limits: max_expr_depth and max_function_expr_depth *)
DepthLimits == {lim \in (0..MaxDepth) \X (0..MaxDepth) : lim[2] \in {0, lim[1]}}

(* Two iteration orders of a hash map of names, one the reverse of the other *)
Ascending == <<"a", "b", "c", "f", "g", "x", "y">>

Descending == <<"y", "x", "g", "f", "c", "b", "a">>

Orders == {Ascending, Descending}

(* The ASTs given to merge and combine, and the filters: the names that pass *)
OtherScripts ==
    { <<>>, <<"x", "+", "1", ";", "1", "+", "1">>,
      <<"fn", "f", "(", "a", ")", "{", "1", "}", "fn", "g", "(", ")", "{", "}",
        "f", "(", "1", ")">> }

Compiled(toks, lvl) ==
    Bind(parse_global_level(toks, 0, 0, Ascending), LAMBDA p :
    optimize_into_ast(StdEngine, <<>>, p.statements, p.lib, lvl))

OtherASTs == {Compiled(toks, "None") : toks \in OtherScripts}

Filters == {Identifiers, {"g"}}

----------------------------------------------------------------------------
(* Engine::parse, lines 3897-3909: parse_global_level, then the optimizer  *)
(* on what it returned, with the engine's limits and level                 *)
Compile ==
    /\ ppc = "idle"
    /\ \E toks \in Scripts, lim \in DepthLimits, ord \in Orders, lvl \in Levels :
          /\ compile' = [entry |-> "parse", input |-> toks,
                         max_expr_depth |-> lim[1],
                         max_function_expr_depth |-> lim[2],
                         order |-> ord, level |-> lvl]
          /\ \E p \in {parse_global_level(toks, lim[1], lim[2], ord)} :
                /\ parsed' = p
                /\ ast' = IF p.err # NoneV THEN NoneV
                          ELSE optimize_into_ast(StdEngine, <<>>, p.statements,
                                                 p.lib, lvl)
                /\ ppc' = IF p.err # NoneV THEN "failed" ELSE "compiled"
    /\ UNCHANGED <<other, merged>>
    /\ UNCHANGED ovars

(* Engine::parse_global_expr, lines 3782-3828 *)
CompileExpr ==
    /\ ppc = "idle"
    /\ \E toks \in ExprInputs, lim \in DepthLimits, ord \in Orders, lvl \in Levels :
          /\ compile' = [entry |-> "parse_global_expr", input |-> toks,
                         max_expr_depth |-> lim[1],
                         max_function_expr_depth |-> lim[2],
                         order |-> ord, level |-> lvl]
          /\ \E p \in {parse_global_expr(toks, lim[1], lim[2], ord)} :
                /\ parsed' = p
                /\ ast' = IF p.err # NoneV THEN NoneV
                          ELSE optimize_into_ast(StdEngine, <<>>, p.statements,
                                                 <<>>, lvl)
                /\ ppc' = IF p.err # NoneV THEN "failed" ELSE "compiled"
    /\ UNCHANGED <<other, merged>>
    /\ UNCHANGED ovars

(* AST::merge_filtered, lines 322-345, and AST::merge, lines 164-173 *)
Merge ==
    /\ ppc = "compiled"
    /\ other' \in OtherASTs
    /\ \E filter \in Filters : merged' = merge_filtered(ast, other', filter)
    /\ ppc' = "merged"
    /\ UNCHANGED <<compile, parsed, ast>>
    /\ UNCHANGED ovars

(* AST::combine_filtered, lines 397-407 *)
Combine ==
    /\ ppc = "compiled"
    /\ other' \in OtherASTs
    /\ \E filter \in Filters : ast' = combine_filtered(ast, other', filter)
    /\ ppc' = "combined"
    /\ UNCHANGED <<compile, parsed, merged>>
    /\ UNCHANGED ovars

ParseNext == Compile \/ CompileExpr \/ Merge \/ Combine

ParseSpec == Init /\ [][ParseNext]_vars

TypeOK ==
    /\ pc \in {"idle", "fns", "start", "loop", "cleanup", "done"}
    /\ round \in {1, 2}
    /\ passes \in 0..PassCap

----------------------------------------------------------------------------
Optimizing == level \in {"Simple", "Full"}

(* C1: with level None the returned statements and the function bodies of  *)
(* the returned library are structurally equal to the input                *)
C1_NoneReturnsInput ==
    (level = "None" /\ pc = "done") => (result = statements /\ module = functions)

(* level None, on an input that the Simple level would rewrite *)
C1_Witness ==
    /\ level = "None" /\ pc = "done" /\ round = 1
    /\ functions # <<>>
    /\ optimize(statements, engine, scope, Signatures(functions), "Simple") # statements
    /\ BuildModule(functions, engine, "Simple") # functions

(* C2: optimizing the output of the optimizer again, at the same level,    *)
(* with the same scope and library, returns it unchanged                   *)
C2_Idempotent ==
    (Optimizing /\ pc = "done" /\ round = 2) => result = first.statements

(* C3: the optimization loop exits: no run of optimize() goes through as   *)
(* many as PassCap passes, each pass that sets the changed flag being      *)
(* followed, after fewer passes than that, by one that leaves it unset     *)
C3_LoopTerminates == passes < PassCap

(* the loop exits after three or more passes *)
C3_Witness == pc = "cleanup" /\ passes >= 3 /\ ~is_dirty(state)

----------------------------------------------------------------------------
(* The statements of a tree, those inside expressions included.  With      *)
(* deep = FALSE the initializer of a const statement is not entered.       *)
RECURSIVE StmtsIn(_, _), StmtsInExpr(_, _)
StmtsInOpt(x, deep) == IF x = NoneV THEN {} ELSE StmtsIn(x, deep)

StmtsInOptExpr(x, deep) == IF x = NoneV THEN {} ELSE StmtsInExpr(x, deep)

StmtsIn(s, deep) ==
    {s} \cup
    CASE s.k = "If" -> StmtsInExpr(s.cond, deep) \cup StmtsIn(s.then, deep)
                        \cup StmtsInOpt(s.else, deep)
      [] s.k = "While" -> StmtsInExpr(s.cond, deep) \cup StmtsIn(s.body, deep)
      [] s.k = "Loop" -> StmtsIn(s.body, deep)
      [] s.k = "For" -> StmtsInExpr(s.iter, deep) \cup StmtsIn(s.body, deep)
      [] s.k \in {"Let", "Return"} -> StmtsInOptExpr(s.init, deep)
      [] s.k = "Const" -> IF deep THEN StmtsInOptExpr(s.init, deep) ELSE {}
      [] s.k = "Assign" -> StmtsInExpr(s.lhs, deep) \cup StmtsInExpr(s.rhs, deep)
      [] s.k = "Block" -> UNION {StmtsIn(s.stmts[i], deep) : i \in 1..Len(s.stmts)}
      [] s.k = "TryCatch" -> StmtsIn(s.try, deep) \cup StmtsIn(s.catch, deep)
      [] s.k \in {"SExpr", "Import"} -> StmtsInExpr(s.e, deep)
      [] OTHER -> {}

StmtsInExpr(e, deep) ==
    CASE e.k = "Expr" -> StmtsInExpr(e.e, deep)
      [] e.k = "Stmt" -> StmtsIn(e.s, deep)
      [] e.k = "FnCall" -> UNION {StmtsInExpr(e.args[i], deep) : i \in 1..Len(e.args)}
      [] e.k \in {"Dot", "Index", "In", "And", "Or"} ->
            StmtsInExpr(e.lhs, deep) \cup StmtsInExpr(e.rhs, deep)
      [] e.k \in {"Array", "Custom"} ->
            UNION {StmtsInExpr(e.items[i], deep) : i \in 1..Len(e.items)}
      [] e.k = "Map" ->
            UNION {StmtsInExpr(e.pairs[i].val, deep) : i \in 1..Len(e.pairs)}
      [] OTHER -> {}

(* all statements of a top-level sequence *)
AllStmts(res) == UNION {StmtsIn(res[i], TRUE) : i \in 1..Len(res)}

(* the statements of a top-level sequence that the optimizer goes through: *)
(* a const initializer is optimized at the top level only                  *)
VisitedStmts(res) ==
    UNION {IF res[i].k = "Const"
           THEN {res[i]} \cup StmtsInOptExpr(res[i].init, FALSE)
           ELSE StmtsIn(res[i], FALSE) : i \in 1..Len(res)}

NoDeadCode(ss) == \A i \in 1..Len(ss) : IsExit(ss[i]) => i = Len(ss)

----------------------------------------------------------------------------
IsIfFalseElse(s) == s.k = "If" /\ s.cond.k = "False" /\ s.else # NoneV

ElseAlone(ss) ==
    [i \in 1..Len(ss) |-> IF IsIfFalseElse(ss[i]) THEN ss[i].else ELSE ss[i]]

(* C4: `if false { A } else { B }` is optimized to what B alone, in the    *)
(* same place of the same statement sequence, is optimized to              *)
C4_IfFalseElseIsElse ==
    (/\ Optimizing /\ pc = "done" /\ round = 1
     /\ \E i \in 1..Len(statements) : IsIfFalseElse(statements[i]))
    => result = optimize(ElseAlone(statements), engine, scope, Signatures(module), level)

WhileTrueBreak == While(True, Block(<<Break>>))

NoopFor(ss, s) == [i \in 1..Len(ss) |-> IF ss[i] = s THEN Noop ELSE ss[i]]

(* C5: `while true { break; }` is optimized as a no-op is, and no while    *)
(* or loop statement is left in the output                                 *)
C5_WhileTrueBreakIsNoop ==
    (/\ Optimizing /\ pc = "done" /\ round = 1
     /\ \E i \in 1..Len(statements) : statements[i] = WhileTrueBreak)
    => /\ \A s \in AllStmts(result) : s.k \notin {"While", "Loop"}
       /\ result = optimize(NoopFor(statements, WhileTrueBreak), engine, scope,
                            Signatures(module), level)

(* the loop is the last of two statements and a no-op is left in its place *)
C5_Witness ==
    /\ Optimizing /\ pc = "done" /\ round = 1 /\ passes = 3
    /\ statements = <<StmtExpr(CallF), WhileTrueBreak>>
    /\ result = <<StmtExpr(CallF), Noop>>

Ten == IntegerConstant(10)

(* C6: at Simple, with N = 10 in the scope, `N + 1` becomes the literal 11 *)
(* when no override of + for two integers is registered, and stays the     *)
(* call `10 + 1` when one is                                               *)
C6_NPlusOne ==
    (/\ level = "Simple" /\ pc = "done" /\ round = 1
     /\ statements # <<>>
     /\ statements[Len(statements)] = StmtExpr(NPlus1))
    => /\ result # <<>>
       /\ result[Len(result)] =
            IF has_override_by_name_and_arguments(engine, "+", <<"Int", "Int">>)
            THEN StmtExpr(FnCall("+", FALSE, <<Ten, IntegerConstant(1)>>, NoneV))
            ELSE StmtExpr(IntegerConstant(11))

(* an override of + is registered and the call is still there at the end *)
C6_Witness ==
    /\ level = "Simple" /\ pc = "done" /\ round = 1 /\ passes = 2
    /\ statements = <<StmtExpr(NPlus1)>>
    /\ engine = OverrideEngine
    /\ result[1].e.k = "FnCall"

LetKeptByClaim(ss, j) ==
    /\ ss[j].k = "Let"
    /\ \/ ss[j].init # NoneV /\ ~expr_is_pure(ss[j].init)
       \/ \E n \in (j + 1)..Len(ss) : ss[n] = StmtExpr(CallF)

(* C7: a `let` of a block is not removed when its initializer is impure    *)
(* or when a surviving statement that is not a declaration follows it      *)
C7_OnlyPureTrailingLetsRemoved ==
    (Optimizing /\ pc = "done" /\ round = 1)
    => \A i \in 1..Len(statements) :
          (statements[i].k = "Block" /\ \A n \in 1..Len(statements[i].stmts) :
                                          ~IsExit(statements[i].stmts[n]))
          => \A j \in 1..Len(statements[i].stmts) :
                LetKeptByClaim(statements[i].stmts, j)
                => statements[i].stmts[j] \in AllStmts(result)

(* C8, as stated: nothing follows the first return/throw or break, in the  *)
(* top-level sequence and in every block of the output                     *)
C8_NoDeadCodeAnywhere ==
    (Optimizing /\ pc = "done")
    => /\ NoDeadCode(result)
       /\ \A s \in AllStmts(result) : s.k = "Block" => NoDeadCode(s.stmts)

(* C8, amended: nothing follows the first return/throw or break in any     *)
(* block that the optimizer has gone through                               *)
C8_NoDeadCodeInBlocks ==
    (Optimizing /\ pc = "done")
    => \A s \in VisitedStmts(result) : s.k = "Block" => NoDeadCode(s.stmts)

ThrowBlock ==
    Block(<<StmtExpr(CallF), ReturnWithVal("Exception", NoneV), StmtExpr(CallG),
            StmtExpr(CallF)>>)

(* a block has lost the two statements that followed its throw *)
C8_Witness ==
    /\ Optimizing /\ pc = "done" /\ round = 1
    /\ statements = <<ThrowBlock>>
    /\ result = <<Block(<<StmtExpr(CallF), ReturnWithVal("Exception", NoneV)>>)>>

(* C9: the final cleanup leaves no pure statement before the last one and  *)
(* never a lone no-op, and keeps the last statement in every other case    *)
C9_FinalCleanup ==
    [][pc = "cleanup" =>
        /\ \A i \in 1..(Len(result') - 1) : ~stmt_is_pure(result'[i])
        /\ result' # <<Noop>>
        /\ (result # <<>> /\ (~is_noop(result[Len(result)]) \/ Len(result') > 0))
           => /\ result' # <<>>
              /\ result'[Len(result')] = result[Len(result)]]_vars

(* a pure statement was dropped and the pure last statement was kept *)
C9_Witness ==
    /\ Optimizing /\ pc = "done" /\ round = 1
    /\ Len(statements) = 2 /\ Len(result) = 1
    /\ stmt_is_pure(result[1])
    /\ ~is_noop(result[1])

IsCallStmt(s) == s.k = "SExpr" /\ s.e.k = "FnCall"

BridgeGivesValue(c) ==
    /\ AllConstant(c.args)
    /\ call_native_fn(engine, c.name, ArgValues(c.args)) # NoneV

(* C10, as stated: at Full a call is replaced by a literal only when the   *)
(* evaluation bridge returned a value for it                               *)
C10_LiteralOnlyFromBridge ==
    [][(pc = "loop" /\ level = "Full") =>
        \A i \in 1..Len(result) :
            (IsCallStmt(result[i]) /\ ~IsCallStmt(result'[i]))
            => BridgeGivesValue(result[i].e)]_vars

(* C10, amended: at Full a call is replaced by a literal only when the     *)
(* bridge returned a value, or the call has a default value, or it is      *)
(* type_of with one argument; otherwise the call stays, with its name,     *)
(* qualification, default value and number of arguments                    *)
C10_EagerCallFallbacks ==
    [][(pc = "loop" /\ level = "Full") =>
        \A i \in 1..Len(result) :
            IsCallStmt(result[i]) =>
                LET c == result[i].e
                IN  IF IsCallStmt(result'[i])
                    THEN /\ result'[i].e.name = c.name
                         /\ result'[i].e.q = c.q
                         /\ result'[i].e.def = c.def
                         /\ Len(result'[i].e.args) = Len(c.args)
                    ELSE /\ result'[i].k = "SExpr"
                         /\ is_literal(result'[i].e)
                         /\ AllConstant(c.args)
                         /\ ~c.q
                         /\ c.name \notin DONT_EVAL_KEYWORDS
                         /\ [name |-> c.name, arity |-> Len(c.args)] \notin state.lib
                         /\ \/ BridgeGivesValue(c)
                            \/ c.def # NoneV
                            \/ c.name = KEYWORD_TYPE_OF /\ Len(c.args) = 1]_vars

(* the call of h, which raises an error, is still there with its argument  *)
(* replaced by the constant                                                *)
C10_Witness ==
    /\ level = "Full" /\ pc = "done" /\ round = 1
    /\ statements = <<StmtExpr(FnCall("h", FALSE, <<VarN>>, NoneV))>>
    /\ result = <<StmtExpr(FnCall("h", FALSE, <<Ten>>, NoneV))>>

----------------------------------------------------------------------------
(* the state a pass starts from: optimize(), lines 765-766 *)
PassState == restore_constants(reset(state), Len(ScopeConstants(scope)))

(* the calls the claim names *)
IsKeywordCall(s) ==
    /\ IsCallStmt(s)
    /\ s.e.name \in {"print", "debug", "eval", "is_def_fn", "is_def_var"}

(* C11: at every level a pass leaves a call of print, debug, eval,         *)
(* is_def_fn or is_def_var in place, all-constant arguments or not: the    *)
(* same call node, its arguments being the optimized arguments, never a    *)
(* literal computed from it                                                *)
C11_KeywordCallsStay ==
    [][pc = "loop" =>
        \A i \in 1..Len(result) :
            IsKeywordCall(result[i]) =>
                result'[i] =
                    StmtExpr([result[i].e EXCEPT
                        !.args = optimize_exprs(result[i].e.args, PassState).r])]_vars

(* Full, all arguments constant, the engine has a value for the call: the  *)
(* call of print is returned with its argument N replaced by the constant  *)
C11_Witness ==
    /\ level = "Full" /\ pc = "done" /\ round = 1
    /\ statements = <<StmtExpr(FnCall("print", FALSE, <<VarN>>, NoneV))>>
    /\ result = <<StmtExpr(FnCall("print", FALSE, <<Ten>>, NoneV))>>
    /\ call_native_fn(engine, "print", <<DInt(10)>>) # NoneV

----------------------------------------------------------------------------
(* The tree with the short-circuit rules applied to every && and || node   *)
RECURSIVE ShortCircuit(_), ShortCircuitExpr(_)
ShortCircuitExprs(es) == [i \in 1..Len(es) |-> ShortCircuitExpr(es[i])]

ShortCircuitOpt(x) == IF x = NoneV THEN x ELSE ShortCircuit(x)

ShortCircuitExpr(e) ==
    CASE e.k = "And" ->
            IF e.lhs.k = "True" THEN ShortCircuitExpr(e.rhs)
            ELSE IF e.lhs.k = "False" THEN False
            ELSE IF e.rhs.k = "True" THEN ShortCircuitExpr(e.lhs)
            ELSE And(ShortCircuitExpr(e.lhs), ShortCircuitExpr(e.rhs))
      [] e.k = "Or" ->
            IF e.lhs.k = "False" THEN ShortCircuitExpr(e.rhs)
            ELSE IF e.lhs.k = "True" THEN True
            ELSE IF e.rhs.k = "False" THEN ShortCircuitExpr(e.lhs)
            ELSE Or(ShortCircuitExpr(e.lhs), ShortCircuitExpr(e.rhs))
      [] e.k = "FnCall" -> [e EXCEPT !.args = ShortCircuitExprs(e.args)]
      [] e.k = "Stmt" -> ExprStmt(ShortCircuit(e.s))
      [] OTHER -> e

ShortCircuit(s) ==
    CASE s.k = "SExpr" -> StmtExpr(ShortCircuitExpr(s.e))
      [] s.k = "Block" -> Block([i \in 1..Len(s.stmts) |-> ShortCircuit(s.stmts[i])])
      [] s.k = "Loop" -> Loop(ShortCircuit(s.body))
      [] s.k = "If" -> IfThenElse(ShortCircuitExpr(s.cond), ShortCircuit(s.then),
                                  ShortCircuitOpt(s.else))
      [] OTHER -> s

ShortCircuitAll(ss) == [i \in 1..Len(ss) |-> ShortCircuit(ss[i])]

(* C12: a program is optimized to what the program with `true && X` and    *)
(* `false || X` replaced by X, `X && true` and `X || false` by X,          *)
(* `false && X` by false and `true || X` by true is optimized to           *)
C12_ShortCircuitFolds ==
    (/\ Optimizing /\ pc = "done" /\ round = 1
     /\ ShortCircuitAll(statements) # statements)
    => result = optimize(ShortCircuitAll(statements), engine, scope,
                         Signatures(module), level)

----------------------------------------------------------------------------
(* The unqualified variable references of a tree, and the names its const  *)
(* statements declare                                                      *)
RECURSIVE RefsIn(_), RefsInExpr(_)
RefsInOpt(x) == IF x = NoneV THEN {} ELSE RefsIn(x)

RefsInOptExpr(x) == IF x = NoneV THEN {} ELSE RefsInExpr(x)

RefsIn(s) ==
    CASE s.k = "If" -> RefsInExpr(s.cond) \cup RefsIn(s.then) \cup RefsInOpt(s.else)
      [] s.k = "While" -> RefsInExpr(s.cond) \cup RefsIn(s.body)
      [] s.k = "Loop" -> RefsIn(s.body)
      [] s.k = "For" -> RefsInExpr(s.iter) \cup RefsIn(s.body)
      [] s.k \in {"Let", "Const", "Return"} -> RefsInOptExpr(s.init)
      [] s.k = "Assign" -> RefsInExpr(s.lhs) \cup RefsInExpr(s.rhs)
      [] s.k = "Block" -> UNION {RefsIn(s.stmts[i]) : i \in 1..Len(s.stmts)}
      [] s.k = "TryCatch" -> RefsIn(s.try) \cup RefsIn(s.catch)
      [] s.k \in {"SExpr", "Import"} -> RefsInExpr(s.e)
      [] OTHER -> {}

RefsInExpr(e) ==
    CASE e.k = "Var" -> IF e.q THEN {} ELSE {e.name}
      [] e.k = "Expr" -> RefsInExpr(e.e)
      [] e.k = "Stmt" -> RefsIn(e.s)
      [] e.k = "FnCall" -> UNION {RefsInExpr(e.args[i]) : i \in 1..Len(e.args)}
      [] e.k \in {"Dot", "Index", "In", "And", "Or"} ->
            RefsInExpr(e.lhs) \cup RefsInExpr(e.rhs)
      [] e.k \in {"Array", "Custom"} ->
            UNION {RefsInExpr(e.items[i]) : i \in 1..Len(e.items)}
      [] e.k = "Map" -> UNION {RefsInExpr(e.pairs[i].val) : i \in 1..Len(e.pairs)}
      [] OTHER -> {}

AllRefs(res) == UNION {RefsIn(res[i]) : i \in 1..Len(res)}

(* the literal constants declared inside the blocks of a program *)
BlockConsts(res) ==
    {s.name : s \in {x \in AllStmts(res) :
                        /\ x.k = "Const"
                        /\ \A i \in 1..Len(res) : x # res[i]
                        /\ x.init = NoneV \/ is_literal(x.init)}}

ConstsDeclared(res) == {s.name : s \in {x \in AllStmts(res) : x.k = "Const"}}

(* C19: once the optimizer has elided a literal const declaration from a   *)
(* block, the optimized program holds no reference to that constant        *)
C19_NoReferenceToElidedConst ==
    (Optimizing /\ pc = "done" /\ round = 1)
    => \A c \in BlockConsts(statements) \ ConstsDeclared(result) :
           c \notin AllRefs(result)

----------------------------------------------------------------------------
(* The names a tree reads from outside: the unqualified references that no *)
(* let, for variable or catch variable declared before them binds          *)
RECURSIVE Free(_, _), FreeExpr(_, _), FreeSeq(_, _)
FreeOpt(x, bound) == IF x = NoneV THEN {} ELSE Free(x, bound)

FreeOptExpr(x, bound) == IF x = NoneV THEN {} ELSE FreeExpr(x, bound)

FreeSeq(ss, bound) ==
    IF ss = <<>> THEN {}
    ELSE Free(Head(ss), bound)
         \cup FreeSeq(Tail(ss), IF Head(ss).k = "Let"
                                THEN bound \cup {Head(ss).name} ELSE bound)

Free(s, bound) ==
    CASE s.k = "If" -> FreeExpr(s.cond, bound) \cup Free(s.then, bound)
                        \cup FreeOpt(s.else, bound)
      [] s.k = "While" -> FreeExpr(s.cond, bound) \cup Free(s.body, bound)
      [] s.k = "Loop" -> Free(s.body, bound)
      [] s.k = "For" -> FreeExpr(s.iter, bound) \cup Free(s.body, bound \cup {s.name})
      [] s.k \in {"Let", "Const", "Return"} -> FreeOptExpr(s.init, bound)
      [] s.k = "Assign" -> FreeExpr(s.lhs, bound) \cup FreeExpr(s.rhs, bound)
      [] s.k = "Block" -> FreeSeq(s.stmts, bound)
      [] s.k = "TryCatch" -> Free(s.try, bound) \cup Free(s.catch, bound \cup {s.var})
      [] s.k \in {"SExpr", "Import"} -> FreeExpr(s.e, bound)
      [] OTHER -> {}

FreeExpr(e, bound) ==
    CASE e.k = "Var" -> IF e.q THEN {} ELSE {e.name} \ bound
      [] e.k = "Expr" -> FreeExpr(e.e, bound)
      [] e.k = "Stmt" -> Free(e.s, bound)
      [] e.k = "FnCall" -> UNION {FreeExpr(e.args[i], bound) : i \in 1..Len(e.args)}
      [] e.k \in {"Dot", "Index", "In", "And", "Or"} ->
            FreeExpr(e.lhs, bound) \cup FreeExpr(e.rhs, bound)
      [] e.k \in {"Array", "Custom"} ->
            UNION {FreeExpr(e.items[i], bound) : i \in 1..Len(e.items)}
      [] e.k = "Map" -> UNION {FreeExpr(e.pairs[i].val, bound) : i \in 1..Len(e.pairs)}
      [] OTHER -> {}

ScopeConstantNames(sc) ==
    {ScopeConstants(sc)[i].name : i \in 1..Len(ScopeConstants(sc))}

(* C20: a reference is replaced by a constant's literal only when the      *)
(* constant is its innermost binding: a program that declares no constant  *)
(* and in which every reference to a constant of the scope is bound again  *)
(* by a let, a for variable or a catch variable is optimized as it is with *)
(* no constant in the scope                                                *)
C20_ShadowedNotSubstituted ==
    (/\ Optimizing /\ pc = "done" /\ round = 1
     /\ ConstsDeclared(statements) = {}
     /\ FreeSeq(statements, {}) \cap ScopeConstantNames(scope) = {})
    => result = optimize(statements, engine, <<>>, Signatures(module), level)

----------------------------------------------------------------------------
(* The parser has returned *)
Parsed == ppc # "idle"

Failed(e) == parsed.err # NoneV /\ parsed.err.e = e

(* C13: with max_expr_depth = 2 the parser rejects ((1)) with ExprTooDeep  *)
(* and accepts (1); with a ceiling of 0 nothing is rejected for depth; a   *)
(* depth check fails exactly when the ceiling is not 0 and the level is    *)
(* greater than the ceiling.                                               *)
C13_DepthCeiling ==
    /\ Parsed /\ compile.max_expr_depth = 2 /\ compile.input = Parens(2, <<"1">>)
           => Failed("ExprTooDeep")
    /\ Parsed /\ compile.max_expr_depth = 2 /\ compile.input = Parens(1, <<"1">>)
           => parsed.err = NoneV
    /\ Parsed /\ compile.max_expr_depth = 0 /\ compile.max_function_expr_depth = 0
           => ~Failed("ExprTooDeep")
    /\ \A lvl \in 0..(MaxDepth + 1), limit \in 0..MaxDepth :
           ensure_level_within_max_limit([level |-> lvl, pos |-> NoPos], limit) # NoneV
               <=> limit # 0 /\ lvl > limit

----------------------------------------------------------------------------
(* The anonymous functions of a library, the statements of the program and *)
(* of its functions, and the blocks that curry the pointer to a function   *)
AnonDefs(lib) == {lib[i] : i \in {j \in 1..Len(lib) : lib[j].name \notin Identifiers}}

ProgramStmts(p) ==
    AllStmts(p.statements) \cup UNION {StmtsIn(p.lib[i].body, TRUE) : i \in 1..Len(p.lib)}

IsCurryOf(s, name) ==
    /\ s.k = "SExpr" /\ s.e.k = "FnCall" /\ s.e.name = KEYWORD_FN_PTR_CURRY
    /\ s.e.args # <<>> /\ s.e.args[1] = FnPointer(name)

CurrySites(p, name) ==
    {b \in ProgramStmts(p) :
        b.k = "Block" /\ b.stmts # <<>> /\ IsCurryOf(b.stmts[Len(b.stmts)], name)}

Range(seq) == {seq[i] : i \in 1..Len(seq)}

(* the script  let x = 1; let g = |a| a + x; *)
ClosureExample ==
    <<"let", "x", "=", "1", ";", "let", "g", "=", "|", "a", "|", "a", "+", "x", ";">>

(* C14 as stated: the definition of an anonymous function lists every      *)
(* outer variable its body refers to, which is curried where the function  *)
(* is created, in its set of externals.                                    *)
C14_ExternalsListed ==
    (Parsed /\ parsed.err = NoneV)
    => \A d \in AnonDefs(parsed.lib) : \A b \in CurrySites(parsed, d.name) :
           \A i \in 2..Len(b.stmts[Len(b.stmts)].e.args) :
               b.stmts[Len(b.stmts)].e.args[i].name \in d.externals

(* C14 amended: the definition of an anonymous function has an empty set   *)
(* of externals; every variable its body reads from outside is one of its  *)
(* parameters, the captured ones leading; where the function is created    *)
(* the parser puts a block that shares each captured variable and curries  *)
(* the function pointer with them, so the caller passes none of them.      *)
C14_CapturedBecomeParameters ==
    (Parsed /\ parsed.err = NoneV)
    => /\ \A d \in AnonDefs(parsed.lib) :
            /\ d.externals = {}
            /\ Free(d.body, {}) \subseteq Range(d.params)
            /\ \A b \in CurrySites(parsed, d.name) :
                 Bind(b.stmts[Len(b.stmts)].e.args, LAMBDA args :
                    /\ Len(args) >= 2
                    /\ Len(args) - 1 <= Len(d.params)
                    /\ Len(b.stmts) = Len(args)
                    /\ \A i \in 1..(Len(args) - 1) :
                          /\ args[i + 1] = IndexedVariable(d.params[i], 0)
                          /\ b.stmts[i] = Share(d.params[i]))
       /\ compile.input = ClosureExample
            => /\ Len(parsed.lib) = 1
               /\ parsed.lib[1].params = <<"x", "a">>
               /\ parsed.statements[2] =
                     Let("g", ExprStmt(Block(<<Share("x"),
                         StmtExpr(FnCall(KEYWORD_FN_PTR_CURRY, FALSE,
                             <<FnPointer(parsed.lib[1].name),
                               IndexedVariable("x", 0)>>, NoneV))>>)))

C14_Witness ==
    /\ ppc = "compiled"
    /\ compile.input = ClosureExample
    /\ CurrySites(parsed, parsed.lib[1].name) # {}
    /\ "x" \in Free(parsed.lib[1].body, {})

----------------------------------------------------------------------------
(* The first function definition written in a script: where it starts, the *)
(* token that closes its parameter list, where the list starts and ends,   *)
(* and the positions of the parameter names                                *)
DefAt(toks) == CHOOSE i \in 1..Len(toks) :
                   /\ toks[i] \in {"fn", "|"}
                   /\ \A j \in 1..(i - 1) : toks[j] \notin {"fn", "|", "||"}

HasDef(toks) ==
    /\ \E i \in 1..Len(toks) : /\ toks[i] \in {"fn", "|"}
                               /\ \A j \in 1..(i - 1) : toks[j] \notin {"fn", "|", "||"}
    /\ toks[DefAt(toks)] = "fn"
           => /\ DefAt(toks) + 2 <= Len(toks)
              /\ toks[DefAt(toks) + 1] \in Identifiers
              /\ toks[DefAt(toks) + 2] = "("

ListStart(toks) == IF toks[DefAt(toks)] = "fn" THEN DefAt(toks) + 3 ELSE DefAt(toks) + 1

ListClose(toks) == IF toks[DefAt(toks)] = "fn" THEN ")" ELSE "|"

DefName(toks) == IF toks[DefAt(toks)] = "fn" THEN toks[DefAt(toks) + 1] ELSE ""

(* the list is closed and is made of names separated by commas *)
HasParamList(toks) ==
    /\ HasDef(toks)
    /\ \E e \in ListStart(toks)..Len(toks) :
          /\ toks[e] = ListClose(toks)
          /\ \A j \in ListStart(toks)..(e - 1) :
                IF (j - ListStart(toks)) % 2 = 0 THEN toks[j] \in Identifiers
                ELSE toks[j] = ","

ListEnd(toks) == CHOOSE e \in ListStart(toks)..Len(toks) :
                     /\ toks[e] = ListClose(toks)
                     /\ \A j \in ListStart(toks)..(e - 1) : toks[j] # ListClose(toks)

ParamAt(toks) == {j \in ListStart(toks)..(ListEnd(toks) - 1) : toks[j] \in Identifiers}

Repeated(toks) == {j \in ParamAt(toks) : \E k \in ParamAt(toks) : k > j /\ toks[k] = toks[j]}

FirstRepeated(toks) == CHOOSE j \in Repeated(toks) : \A j2 \in Repeated(toks) : j <= j2

NextOccurrence(toks) ==
    CHOOSE k \in ParamAt(toks) :
        /\ k > FirstRepeated(toks) /\ toks[k] = toks[FirstRepeated(toks)]
        /\ \A k2 \in ParamAt(toks) :
              k2 > FirstRepeated(toks) /\ toks[k2] = toks[FirstRepeated(toks)] => k <= k2

(* C15: a script whose function definition (named or anonymous) has a      *)
(* parameter name more than once is rejected with FnDuplicatedParam naming *)
(* the function and the first repeated parameter, at the position of that  *)
(* name's next occurrence, unless the depth ceiling stops the parse before *)
(* the definition is reached, which never happens to a named definition;   *)
(* a definition with pairwise distinct parameter names is never rejected   *)
(* with that error.                                                        *)
C15_DuplicateParameters ==
    (Parsed /\ compile.input \in FnScripts /\ HasParamList(compile.input))
    => Bind(compile.input, LAMBDA toks :
       /\ Repeated(toks) # {} /\ ~Failed("ExprTooDeep")
             => /\ Failed("FnDuplicatedParam")
                /\ parsed.err.arg = <<DefName(toks), toks[FirstRepeated(toks)]>>
                /\ parsed.err.pos = NextOccurrence(toks)
       /\ Repeated(toks) # {} /\ toks[DefAt(toks)] = "fn" => ~Failed("ExprTooDeep")
       /\ Repeated(toks) = {} => ~Failed("FnDuplicatedParam"))

C15_Witness ==
    /\ ppc = "failed"
    /\ compile.input = <<"fn", "f", "(", "a", ",", "b", ",", "a", ")", "{", "}">>
    /\ compile.max_expr_depth = 1
    /\ Failed("FnDuplicatedParam")
    /\ parsed.err.arg = <<"f", "a">>
    /\ parsed.err.pos = 8

----------------------------------------------------------------------------
(* The first `export` written in a script, the blocks open around it, and  *)
(* whether a function or closure body starts before it                     *)
HasExport(toks) == \E i \in 1..Len(toks) : toks[i] = "export"

ExportAt(toks) == CHOOSE i \in 1..Len(toks) :
                      toks[i] = "export" /\ \A j \in 1..(i - 1) : toks[j] # "export"

OpenBraces(toks) ==
    Cardinality({j \in 1..(ExportAt(toks) - 1) : toks[j] = "{"})
    - Cardinality({j \in 1..(ExportAt(toks) - 1) : toks[j] = "}"})

InFunction(toks) == \E j \in 1..(ExportAt(toks) - 1) : toks[j] \in {"fn", "|", "||"}

NestedExport(toks) == HasExport(toks) /\ (OpenBraces(toks) > 0 \/ InFunction(toks))

(* the export is a statement of blocks that are statements themselves,     *)
(* after declarations without initial value only                           *)
PlainNesting(toks) ==
    /\ NestedExport(toks)
    /\ \A j \in 1..(ExportAt(toks) - 1) : toks[j] \in {"{", "let", "x", ";"}

(* C16 as stated: an export inside a block or a function body makes the    *)
(* parse fail with WrongExport, whatever the nesting depth                 *)
C16_NestedExportIsWrongExport ==
    (Parsed /\ NestedExport(compile.input)) => Failed("WrongExport")

(* C16: an export inside a block or a function body never parses: the      *)
(* parse fails with WrongExport at the export, or with ExprTooDeep when a  *)
(* depth ceiling is set; with no ceiling it is always WrongExport; an      *)
(* export that starts a statement nested in n blocks gives WrongExport     *)
(* exactly when the ceiling is zero or at least 2n; an export at global    *)
(* level is never a WrongExport                                            *)
C16_ExportOnlyAtGlobalLevel ==
    (Parsed /\ compile.input \in ExportScripts)
    => Bind(compile.input, LAMBDA toks :
       /\ NestedExport(toks)
             => /\ parsed.err # NoneV
                /\ \/ Failed("WrongExport") /\ parsed.err.pos = ExportAt(toks)
                   \/ Failed("ExprTooDeep") /\ compile.max_expr_depth # 0
       /\ (PlainNesting(toks) /\ compile.entry = "parse")
             => (Failed("WrongExport")
                    <=> \/ compile.max_expr_depth = 0
                        \/ compile.max_expr_depth >= 2 * OpenBraces(toks))
       /\ (HasExport(toks) /\ ~NestedExport(toks)) => ~Failed("WrongExport"))

C16_Witness ==
    /\ ppc = "failed"
    /\ compile.entry = "parse"
    /\ compile.input = <<"{", "{", "export", "x", ";", "}", "}">>
    /\ compile.max_expr_depth = 4
    /\ Failed("WrongExport")
    /\ parsed.err.pos = 3

----------------------------------------------------------------------------
(* What a script declares before an assignment: the declarations of a name *)
(* that are on the symbol stack after the tokens `pre`. A declaration in a *)
(* block that is closed again is gone, a function or closure body starts   *)
(* with a fresh stack, and a parameter is a variable of the body           *)
Depth(pre, j) ==
    Cardinality({k \in 1..(j - 1) : pre[k] = "{"})
    - Cardinality({k \in 1..(j - 1) : pre[k] = "}"})

BodyStart(pre) ==
    IF \E j \in 1..Len(pre) : pre[j] \in {"fn", "||"}
    THEN CHOOSE j \in 1..Len(pre) : pre[j] \in {"fn", "||"}
    ELSE 0

Declares(pre, j, name) ==
    /\ j > BodyStart(pre)
    /\ j > 1
    /\ pre[j] = name
    /\ \/ pre[j - 1] \in {"let", "const"}
       \/ BodyStart(pre) > 0 /\ pre[BodyStart(pre)] = "fn" /\ pre[j - 1] \in {"(", ","}
    /\ \A k \in j..(Len(pre) + 1) : Depth(pre, k) >= Depth(pre, j)

DeclaredAt(pre, name) == {j \in 1..Len(pre) : Declares(pre, j, name)}

(* "Constant", "Normal", or "Absent" when the name is not on the stack *)
InnermostBinding(pre, name) ==
    IF DeclaredAt(pre, name) = {} THEN "Absent"
    ELSE Bind(CHOOSE j \in DeclaredAt(pre, name) :
                  \A j2 \in DeclaredAt(pre, name) : j2 <= j, LAMBDA j :
         IF pre[j - 1] = "const" THEN "Constant" ELSE "Normal")

(* The targets: a variable or an index/property path rooted at a variable, *)
(* a constant expression, a logical operator, and every other expression   *)
PathTargets ==
    { <<"x">>, <<"y">>, <<"x", "[", "1", "]">>, <<"x", "[", "1", "]", "[", "1", "]">>,
      <<"x", ".", "a">>, <<"x", ".", "a", ".", "b">>, <<"x", "[", "1", "]", ".", "a">>,
      <<"x", ".", "f", "(", ")">>, <<"(", "x", ")">> }

RootOf(target) == IF target[1] = "(" THEN target[2] ELSE target[1]

ConstantTargets == { <<"1">>, <<"(", ")">>, <<"(", "1", ")">> }

LogicalTargets == { <<"x", "||", "y">> }

AssignmentOutcome(pre, target) ==
    CASE target \in PathTargets ->
            IF InnermostBinding(pre, RootOf(target)) = "Constant"
            THEN <<"AssignmentToConstant", RootOf(target)>>
            ELSE <<"accepted">>
      [] target \in ConstantTargets -> <<"AssignmentToConstant", "">>
      [] target \in LogicalTargets -> <<"BadInput", "Possibly a typo of '=='?">>
      [] OTHER -> <<"AssignmentToInvalidLHS", "">>

ParseOutcome ==
    IF parsed.err = NoneV THEN <<"accepted">> ELSE <<parsed.err.e, parsed.err.arg>>

IsAssignScript(toks, ctx, target, op) ==
    toks = ctx.pre \o target \o <<op, "1", ";">> \o ctx.post

(* the targets that are assigned to; `|| x = 1` is a closure whose body is *)
(* the assignment                                                          *)
AssignedTargets == AssignTargets \ { <<"||", "x">> }

(* C17 as stated: AssignmentToConstant exactly when the target is a        *)
(* variable, or a path rooted at one, whose innermost binding is a         *)
(* constant; every target that is not such a path is rejected (checked     *)
(* without a depth ceiling)                                                *)
C17_ConstantOnlyForConstantVariables ==
    (Parsed /\ compile.entry = "parse" /\ compile.max_expr_depth = 0)
    => \A ctx \in AssignContexts, target \in AssignedTargets, op \in AssignOps :
          IsAssignScript(compile.input, ctx, target, op)
          => /\ Failed("AssignmentToConstant")
                   <=> /\ target \in PathTargets
                       /\ InnermostBinding(ctx.pre, RootOf(target)) = "Constant"
             /\ target \notin PathTargets => parsed.err # NoneV

(* C17: an assignment, plain or compound, that the depth ceiling lets the  *)
(* parser reach is rejected with AssignmentToConstant naming the variable  *)
(* when its target is a variable, or an index/property path rooted at a    *)
(* variable, whose innermost binding on the symbol stack is a constant,    *)
(* and is accepted when that binding is a `let` (also one that shadows a   *)
(* constant) or when the name is not on the stack; a constant expression   *)
(* as target is rejected with AssignmentToConstant naming nothing, a       *)
(* logical `||` with BadInput, and every other target with                 *)
(* AssignmentToInvalidLHS                                                  *)
C17_AssignmentTargets ==
    (Parsed /\ compile.entry = "parse" /\ ~Failed("ExprTooDeep"))
    => \A ctx \in AssignContexts, target \in AssignedTargets, op \in AssignOps :
          IsAssignScript(compile.input, ctx, target, op)
          => ParseOutcome = AssignmentOutcome(ctx.pre, target)

C17_Witness ==
    /\ ppc = "failed"
    /\ compile.entry = "parse"
    /\ compile.input = <<"const", "x", "=", "1", ";", "{",
                         "x", ".", "a", "+=", "1", ";", "}">>
    /\ Failed("AssignmentToConstant")
    /\ parsed.err.arg = "x"

----------------------------------------------------------------------------
(* The AST that Engine::parse returned for the compiled script *)
CompiledAst ==
    optimize_into_ast(StdEngine, <<>>, parsed.statements,
                      IF compile.entry = "parse" THEN parsed.lib ELSE <<>>,
                      compile.level)

(* C18: the AST returned by merge_filtered has the statements of the first *)
(* AST followed by those of the second, as they are in the two ASTs        *)
(* whatever the level the first was compiled at, and both ASTs are left as *)
(* they were; combine_filtered leaves the same sequence in the first AST   *)
C18_MergeConcatenates ==
    /\ ppc = "merged"
          => /\ merged.statements = ast.statements \o other.statements
             /\ ast = CompiledAst
             /\ other \in OtherASTs
    /\ ppc = "combined"
          => /\ ast.statements = CompiledAst.statements \o other.statements
             /\ ast.statements = merge_filtered(CompiledAst, other, Identifiers).statements
             /\ other \in OtherASTs

(* a merge at level Full of a non-empty AST with one that holds `1 + 1`,   *)
(* which the optimizer would fold                                          *)
C18_Witness ==
    /\ ppc = "merged"
    /\ compile.level = "Full"
    /\ ast.statements # <<>>
    /\ other.statements # <<>>
    /\ ast.statements # other.statements
    /\ optimize(other.statements, StdEngine, <<>>, Signatures(other.lib), "Full")
           # other.statements
    /\ merged.statements = ast.statements \o other.statements

----------------------------------------------------------------------------
(* The blocks of a tree, and the state with a given constants table *)
BlocksOf(res) == {s \in AllStmts(res) : s.k = "Block"}

WithConstants(st, table) == [st EXCEPT !.constants = table]

LocalC == [name |-> "C", e |-> IntegerConstant(2)]

(* the tables a block is entered with: empty, the constants of the scope,  *)
(* and those followed by a constant of an enclosing block                  *)
Tables == { <<>>, ScopeConstants(scope), Append(ScopeConstants(scope), LocalC) }

(* C21: the optimization of a block returns with the constants table it    *)
(* was entered with; a reference to C outside the block that declares C,   *)
(* or before the top-level declaration of C, is never replaced by the      *)
(* value of C, while a reference in a block nested in the declaring one    *)
(* (or below the top-level declaration) is; the table of a pass starts     *)
(* with the constants of the scope, which are all that is left of it when  *)
(* the next pass starts                                                    *)
C21_ConstantsBlockScoped ==
    /\ (Optimizing /\ pc = "loop")
          => /\ \A b \in BlocksOf(result), table \in Tables, keep \in BOOLEAN :
                   optimize_stmt(b, WithConstants(state, table), keep).st.constants
                       = table
             /\ Len(state.constants) >= Len(ScopeConstants(scope))
             /\ SubSeq(state.constants, 1, Len(ScopeConstants(scope)))
                    = ScopeConstants(scope)
             /\ result = <<>> \/ Pass(result, state, Len(ScopeConstants(scope))).r
                                    = Pass(result, WithConstants(state, ScopeConstants(scope)),
                                           Len(ScopeConstants(scope))).r
    /\ (Optimizing /\ round = 1 /\ pc \in {"loop", "cleanup", "done"}
        /\ statements \in LeakPrograms)
          => /\ FOfC \in AllStmts(result)
             /\ FOf1 \notin AllStmts(result)
    /\ (Optimizing /\ round = 1 /\ pc = "done" /\ statements \in SeePrograms)
          => /\ FOf1 \in AllStmts(result)
             /\ FOfC \notin AllStmts(result)

(* a block that declares C in an inner block and refers to C after it: the *)
(* declaration is gone from the result and the reference is still there    *)
C21_Witness ==
    /\ Optimizing /\ pc = "done" /\ round = 1
    /\ statements = <<Block(<<DeclaresC, FOfC, StmtExpr(CallF)>>)>>
    /\ result = <<Block(<<StmtExpr(CallF), FOfC, StmtExpr(CallF)>>)>>

----------------------------------------------------------------------------
(* C22: a pass that ends with the changed flag unset returns the tree it   *)
(* was given                                                               *)
C22_CleanPassLeavesTree ==
    (Optimizing /\ pc = "loop")
    => Bind(Pass(result, state, Len(ScopeConstants(scope))), LAMBDA p :
       ~is_dirty(p.st) => p.r = result)

----------------------------------------------------------------------------
IsDeclaration(s) == s.k \in {"Let", "Import"}

(* C23: a block whose only statement is a `let` or `import` declaration is *)
(* optimized to a block that holds that one declaration                    *)
C23_LoneDeclarationKept ==
    (Optimizing /\ pc = "loop")
    => \A b \in BlocksOf(result), keep \in BOOLEAN :
          (Len(b.stmts) = 1 /\ IsDeclaration(b.stmts[1]))
          => Bind(optimize_stmt(b, state, keep).r, LAMBDA r :
             /\ r.k = "Block"
             /\ Len(r.stmts) = 1
             /\ r.stmts[1].k = b.stmts[1].k)

----------------------------------------------------------------------------
(* What the optimizer leaves of a function body given as the only          *)
(* statement of a program                                                  *)
Collapsed(body) == optimize(<<body>>, engine, <<>>, Signatures(functions), level)

BodyOf(b) == <<ScriptFnDef("g", <<>>, {}, b)>>

(* C24: at levels Simple and Full the body stored for a function is the    *)
(* bare expression statement `expr` when the body collapses to             *)
(* `return expr`, the unit expression when it collapses to a value-less    *)
(* `return`, a no-op when it collapses to nothing, and the statement it    *)
(* collapses to otherwise, a `throw` included                              *)
C24_FunctionBodies ==
    (Optimizing /\ pc \in {"start", "loop", "cleanup", "done"})
    => /\ Len(module) = Len(functions)
       /\ \A i \in 1..Len(functions) :
             Bind(Collapsed(functions[i].body), LAMBDA body :
             /\ module[i].name = functions[i].name
             /\ module[i].params = functions[i].params
             /\ Len(body) <= 1
             /\ body = <<>> => module[i].body = Noop
             /\ (body # <<>> /\ body[1].k = "Return" /\ body[1].ret = "Return"
                 /\ body[1].init # NoneV)
                   => module[i].body = StmtExpr(body[1].init)
             /\ (body # <<>> /\ body[1].k = "Return" /\ body[1].ret = "Return"
                 /\ body[1].init = NoneV)
                   => module[i].body = StmtExpr(Unit)
             /\ (body # <<>> /\ ~(body[1].k = "Return" /\ body[1].ret = "Return"))
                   => module[i].body = body[1])
       /\ functions = BodyOf(Block(<<ReturnWithVal("Return", NPlus1)>>))
             => module = BodyOf(StmtExpr(NPlus1))
       /\ functions = BodyOf(Block(<<ReturnWithVal("Return", NoneV)>>))
             => module = BodyOf(StmtExpr(Unit))
       /\ functions = BodyOf(Block(<<>>)) => module = BodyOf(Noop)
       /\ functions = BodyOf(Block(<<ReturnWithVal("Exception", VarX)>>))
             => module = BodyOf(ReturnWithVal("Exception", VarX))

(* the library whose function is `{ return N + 1; }`, once built *)
C24_Witness ==
    /\ Optimizing /\ pc = "start" /\ round = 1
    /\ functions = BodyOf(Block(<<ReturnWithVal("Return", NPlus1)>>))
    /\ module = BodyOf(StmtExpr(NPlus1))

----------------------------------------------------------------------------
(* The first `fn` written in a script, the blocks open around it, and      *)
(* whether a function or closure body starts before it                     *)
FnAt(toks) == CHOOSE i \in 1..Len(toks) :
                  toks[i] = "fn" /\ \A j \in 1..(i - 1) : toks[j] # "fn"

InnerFnAt(toks) == CHOOSE i \in 1..Len(toks) :
                       /\ toks[i] = "fn"
                       /\ \A j \in (i + 1)..Len(toks) : toks[j] # "fn"

BracesOpenAt(toks, i) ==
    Cardinality({j \in 1..(i - 1) : toks[j] = "{"})
    - Cardinality({j \in 1..(i - 1) : toks[j] = "}"})

(* the last `fn` of the script is inside a block, a function body or a     *)
(* closure body                                                            *)
NestedFn(toks) ==
    /\ \E i \in 1..Len(toks) : toks[i] = "fn"
    /\ BracesOpenAt(toks, InnerFnAt(toks)) > 0

(* C25: a `fn` definition inside a block or a function body, with or       *)
(* without `private` before it, makes the parse fail with                  *)
(* WrongFnDefinition (checked where the depth ceiling does not stop the    *)
(* parse first)                                                            *)
C25_NestedFnIsWrongFnDefinition ==
    (Parsed /\ compile.input \in NestedFnScripts /\ NestedFn(compile.input)
     /\ ~Failed("ExprTooDeep"))
    => Failed("WrongFnDefinition")

----------------------------------------------------------------------------
(* The dot expressions inside an expression, and the expression at the     *)
(* head of a chain of dots and indexes                                     *)
RECURSIVE DotNodes(_)
DotNodes(e) ==
    CASE e.k \in {"Dot", "Index", "Or", "And", "In"} ->
            (IF e.k = "Dot" THEN {e} ELSE {}) \cup DotNodes(e.lhs) \cup DotNodes(e.rhs)
      [] e.k = "FnCall" -> UNION {DotNodes(e.args[i]) : i \in 1..Len(e.args)}
      [] e.k = "Expr" -> DotNodes(e.e)
      [] OTHER -> {}

RECURSIVE HeadOf(_)
HeadOf(e) == IF e.k \in {"Dot", "Index"} THEN HeadOf(e.lhs) ELSE e

ParsedExpression ==
    Parsed /\ compile.entry = "parse_global_expr" /\ parsed.err = NoneV

(* C26: no dot expression the parser returns has a right-hand side that    *)
(* is, or is headed by, a variable: a module-qualified name there is       *)
(* rejected with PropertyExpected, also in the indexed form, and an        *)
(* unqualified identifier there has become a property.                     *)
C26_NoQualifiedRightOfDot ==
    /\ ParsedExpression
       => \A d \in DotNodes(parsed.statements[1].e) : HeadOf(d.rhs).k # "Var"
    /\ (Parsed /\ compile.input \in
            { <<"x", ".", "a", "::", "b">>, <<"x", ".", "a", "::", "b", "[", "1", "]">> }
        /\ ~Failed("ExprTooDeep"))
       => Failed("PropertyExpected")

----------------------------------------------------------------------------
(* The expression `l op r` as the parser builds it from finished operands: *)
(* a call of the operator, an Or, an And, or a dot expression whose        *)
(* right-hand side has a property at its head                              *)
Operand(n) == IndexedVariable(n, 0)

Grouped(op, l, r) ==
    CASE op \in {"+", "*", "|"} -> FnCall(op, FALSE, <<l, r>>, NoneV)
      [] op = "||" -> Or(l, r)
      [] op = "&&" -> And(l, r)
      [] op = "." -> Dot(l, IF r.k = "Dot" THEN Dot(Property(<<r.lhs.name>>), r.rhs)
                            ELSE Property(<<r.name>>))

(* the precedence levels of the grammar, lowest first, and the operators   *)
(* that associate to the right                                             *)
Level(op) ==
    CASE op \in {"||", "|"} -> 1
      [] op = "&&" -> 2
      [] op = "+" -> 3
      [] op = "*" -> 4
      [] op = "." -> 5

RightAssociative(op) == op = "."

BindsRight(op1, op2) ==
    Level(op2) > Level(op1) \/ (Level(op2) = Level(op1) /\ RightAssociative(op1))

ExpectedGrouping(op1, op2) ==
    IF BindsRight(op1, op2)
    THEN Grouped(op1, Operand("a"), Grouped(op2, Operand("b"), Operand("c")))
    ELSE Grouped(op2, Grouped(op1, Operand("a"), Operand("b")), Operand("c"))

ThreeOperands(toks) ==
    /\ Len(toks) = 5
    /\ <<toks[1], toks[3], toks[5]>> = <<"a", "b", "c">>
    /\ toks[2] \in BinaryOperators /\ toks[4] \in BinaryOperators

(* parse_binary_op called with a minimum on what follows the first operand *)
Minimums == {1, 30, 31, 60, 61, 150, 151, 180, 181, 240, 241}

AfterFirstOperand(toks) ==
    parse_unary(ParseState(toks, 0, 0, Ascending), GlobalSettings(FALSE))

StopsAt(token, minimum) ==
    precedence(token) < minimum \/ (precedence(token) = minimum /\ token # ".")

(* C27: `a op1 b op2 c` is grouped as a op1 (b op2 c) when op2 has the     *)
(* higher precedence, or the same and op1 is right-associative, and as     *)
(* (a op1 b) op2 c otherwise; parse_binary_op returns with the input at an *)
(* operator below its caller's minimum, or equal to it and not             *)
(* right-associative, and has consumed nothing when the first operator is  *)
(* one.                                                                    *)
C27_PrecedenceClimbing ==
    (Parsed /\ compile.entry = "parse_global_expr" /\ compile.input \in PrecedenceInputs)
    => /\ ThreeOperands(compile.input) /\ ~Failed("ExprTooDeep")
          => /\ parsed.err = NoneV
             /\ parsed.statements[1].e
                    = ExpectedGrouping(compile.input[2], compile.input[4])
       /\ Bind(AfterFirstOperand(compile.input), LAMBDA lhs :
          \A minimum \in Minimums :
             Bind(parse_binary_op(lhs.c, minimum, lhs.r, GlobalSettings(FALSE)),
                  LAMBDA res :
             /\ res.err = NoneV => StopsAt(peek(res.c), minimum)
             /\ StopsAt(peek(lhs.c), minimum) => res = Ok(lhs.r, lhs.c)))

C27_Witness ==
    /\ Parsed /\ compile.entry = "parse_global_expr"
    /\ compile.input = <<"a", "+", "b", "*", "c">>
    /\ parsed.err = NoneV
    /\ parsed.statements[1].e =
          FnCall("+", FALSE, <<Operand("a"),
                 FnCall("*", FALSE, <<Operand("b"), Operand("c")>>, NoneV)>>, NoneV)

----------------------------------------------------------------------------
(* The script is one of the contexts followed by a block or a `for` loop   *)
(* of the given set: the scope on entry is the one the context declares    *)
EndsWith(toks, blocks) ==
    \E ctx \in ScopeContexts, blk \in blocks : toks = ctx.pre \o blk

ScopeOnEntry(toks, blocks) ==
    Bind(CHOOSE ctx \in ScopeContexts : \E blk \in blocks : toks = ctx.pre \o blk,
         LAMBDA ctx : [stack |-> ctx.stack, modules |-> ctx.modules])

AllBlocks == PlainBlocks \cup GrowingBlocks \cup ShrinkingBlocks

(* C28: when a statement block or a `for` loop has been parsed, the symbol *)
(* stack and the import-alias stack are what they were on entry to it,     *)
(* whatever it contained: declarations, nested blocks, imports, custom     *)
(* syntax with a positive or a negative scope delta.                       *)
C28_BlockRestoresScope ==
    (Parsed /\ compile.entry = "parse" /\ parsed.err = NoneV
     /\ EndsWith(compile.input, AllBlocks))
    => parsed.scope = ScopeOnEntry(compile.input, AllBlocks)

----------------------------------------------------------------------------
(* The variable references of a script without blocks: the identifiers    *)
(* that are not a property or method after a dot, not a function name, not *)
(* part of a module-qualified name, and not a declared name                *)
DeclaredIn(toks) ==
    {toks[i] : i \in {j \in 2..(Len(toks) - 1) :
                         \/ toks[j - 1] = "let"
                         \/ toks[j - 1] = "|" /\ toks[j + 1] = "|"}}
    \cap Identifiers

References(toks) ==
    {i \in 1..Len(toks) :
        /\ toks[i] \in Identifiers \ DeclaredIn(toks)
        /\ i > 1 => toks[i - 1] \notin {".", "::"}
        /\ i < Len(toks) => toks[i + 1] \notin {"(", "::"}}

(* each referenced name once, with the position of its first reference *)
ExpectedCaptures(toks) ==
    {<<toks[i], i>> : i \in {j \in References(toks) :
                                \A j2 \in References(toks) :
                                    toks[j2] = toks[j] => j <= j2}}

CapturedNames(toks) == {p[1] : p \in ExpectedCaptures(toks)}

IsClosureScript(toks) == Len(toks) > 4 /\ toks[4] \in {"|", "||"}

(* C29: the identifier after a dot is not captured, and the suppression    *)
(* ends with it, whether it is a property, a method call or a module       *)
(* qualifier: every variable reference after it that is not declared is    *)
(* captured, the flag is up at the end, and each captured name is recorded *)
(* once, at the position of its first reference.  An anonymous function    *)
(* takes exactly these names as its leading parameters.                    *)
C29_CaptureSuppression ==
    (Parsed /\ compile.input \in CaptureInputs \cup CaptureScripts
     /\ ~Failed("ExprTooDeep"))
    => /\ parsed.err = NoneV
       /\ parsed.captures.allow_capture
       /\ parsed.captures.externals = ExpectedCaptures(compile.input)
       /\ IsClosureScript(compile.input)
          => /\ Len(parsed.lib) = 1
             /\ parsed.lib[1].params
                    = InOrder(compile.order, CapturedNames(compile.input))
                      \o (IF compile.input[4] = "|" THEN <<"a">> ELSE <<>>)

C29_Witness ==
    /\ Parsed /\ compile.entry = "parse"
    /\ compile.input = <<"let", "g", "=", "||", "x", ".", "a", ".", "b", "+", "b",
                         "+", "a", ";">>
    /\ compile.order = Ascending
    /\ parsed.err = NoneV
    /\ parsed.captures.externals = {<<"x", 5>>, <<"b", 11>>, <<"a", 13>>}
    /\ parsed.lib[1].params = <<"a", "b", "x">>

----------------------------------------------------------------------------
(* A script that is `let g =` and an anonymous function: the parameters it *)
(* declares, the expression the parser put in its place, its definition in *)
(* the library and the names it captured, which are the names the          *)
(* enclosing ParseState received from it                                   *)
IsLetClosure(toks) ==
    Len(toks) > 4 /\ SubSeq(toks, 1, 3) = <<"let", "g", "=">> /\ toks[4] \in {"|", "||"}

DeclaredParams(toks) ==
    IF toks[4] = "||" THEN <<>>
    ELSE Bind(CHOOSE j \in 5..Len(toks) :
                  toks[j] = "|" /\ \A j2 \in 5..(j - 1) : toks[j2] # "|",
              LAMBDA close :
         SelectSeq(SubSeq(toks, 5, close - 1), LAMBDA t : t # ","))

ClosureExpr == parsed.statements[1].init

PointerName(e) ==
    IF e.k = "FnPtr" THEN e.name
    ELSE e.s.stmts[Len(e.s.stmts)].e.args[1].name

CapturedBy == {p[1] : p \in parsed.captures.externals}

DefinitionOf(name) ==
    parsed.lib[CHOOSE i \in 1..Len(parsed.lib) : parsed.lib[i].name = name]

CurryBlock(name, captured) ==
    ExprStmt(Block(
        [i \in 1..Len(captured) |-> Share(captured[i])]
        \o << StmtExpr(FnCall("curry", FALSE,
                  <<FnPointer(name)>>
                  \o [i \in 1..Len(captured) |-> IndexedVariable(captured[i], 0)],
                  NoneV)) >>))

(* C30: an anonymous function that captures k >= 1 variables has the k     *)
(* captured names, each once, and then its declared parameters in their    *)
(* order as its parameter list, and stands in the script as a block of k   *)
(* share statements, one per captured name, and a curry call of the        *)
(* function pointer with the k variables in the order of the leading       *)
(* parameters; one that captures nothing stands as the bare function       *)
(* pointer and has the declared parameters only.                           *)
C30_CapturedParametersAndCurry ==
    (Parsed /\ compile.entry = "parse" /\ parsed.err = NoneV
     /\ IsLetClosure(compile.input) /\ Len(parsed.statements) = 1)
    => /\ ClosureExpr.k \in {"FnPtr", "Stmt"}
       /\ Bind(DefinitionOf(PointerName(ClosureExpr)), LAMBDA d :
          Bind(DeclaredParams(compile.input), LAMBDA declared :
          Bind(Cardinality(CapturedBy), LAMBDA k :
          /\ Free(d.body, Range(declared)) \subseteq CapturedBy
          /\ Len(d.params) = k + Len(declared)
          /\ SubSeq(d.params, k + 1, Len(d.params)) = declared
          /\ Range(SubSeq(d.params, 1, k)) = CapturedBy
          /\ k = 0 => ClosureExpr = FnPointer(d.name)
          /\ k >= 1 => ClosureExpr = CurryBlock(d.name, SubSeq(d.params, 1, k)))))

C30_Witness ==
    /\ Parsed /\ compile.entry = "parse" /\ parsed.err = NoneV
    /\ compile.input = <<"let", "g", "=", "|", "a", "|", "y", "+", "x", ";">>
    /\ compile.order = Descending
    /\ parsed.lib[1].params = <<"y", "x", "a">>
    /\ ClosureExpr = CurryBlock(parsed.lib[1].name, <<"y", "x">>)
====
